---- MODULE Spec2Model ----
(***************************************************************************)
(* Model of the gameboy-emu core: CPU interrupt dispatch and instruction   *)
(* stepping (src/src/dev/cpu.rs), the bus (src/src/mem/mmu.rs), the        *)
(* middleware and scheduler (src/src/state.rs), and the clocked devices    *)
(* (src/src/dev/gpu.rs, timer.rs, apu.rs, dma.rs, joypad.rs).              *)
(*                                                                         *)
(* The Rust structs are records: cpu is CPU, state is State (mmu, gpu,     *)
(* apu, timer, dma, joypad), cycles holds Runtime's four cycle counters.   *)
(* Every method is an operator from the receiver's value to its new value. *)
(* A panic is the flag state.mmu.fault; a faulted machine takes no step.   *)
(* The MMU's read/write statistics counters, the framebuffer, the PPU's    *)
(* sprite tables and the APU's channels and sample buffers are not part of *)
(* the modelled state.  An intermediate value that is used more than once  *)
(* is bound once, as the parameter of a local operator or by \E over a     *)
(* singleton set.                                                          *)
(***************************************************************************)
EXTENDS Integers, Naturals, Sequences, FiniteSets, TLC

\* cpu: CPU; state: State; cycles: Runtime's counters; call: the operation
\* invoked last and the value it returned; build: the cargo profile, which
\* decides whether an integer overflow panics ("debug") or wraps ("release")
VARIABLES cpu, state, cycles, call, build

vars == <<cpu, state, cycles, call, build>>

(***************************************************************************)
(* Bounds of the model.                                                    *)
(***************************************************************************)
\* scheduler steps explored per run of the Runtime specification
MaxSteps == 20
\* GPU steps explored per run of the GPU specification (a little over a frame)
MaxGpuSteps == 6100
\* instructions executed along a run of NOPs in the CPU specification
MaxCpuSteps == 260
\* APU steps explored per run of the APU specification (a little over one
\* cycle of the frame sequencer)
MaxApuSteps == 18500

(***************************************************************************)
(* Bytes, words and bits.                                                  *)
(***************************************************************************)
Byte == 0..255

Bit(x, n) == (x \div (2^n)) % 2 = 1

B01(x, n) == (x \div (2^n)) % 2

And8(a, b) ==
    B01(a,0)*B01(b,0) + 2*B01(a,1)*B01(b,1) + 4*B01(a,2)*B01(b,2)
  + 8*B01(a,3)*B01(b,3) + 16*B01(a,4)*B01(b,4) + 32*B01(a,5)*B01(b,5)
  + 64*B01(a,6)*B01(b,6) + 128*B01(a,7)*B01(b,7)

Or8(a, b) == a + b - And8(a, b)

Xor8(a, b) == a + b - 2 * And8(a, b)

\* u8 / u16 wrapping arithmetic (std::num::Wrapping)
safe_b_add(op1, op2) == (op1 + op2) % 256
safe_w_add(op1, op2) == (op1 + op2) % 65536
safe_b_sub(op1, op2) == (op1 - op2 + 256) % 256
safe_w_sub(op1, op2) == (op1 - op2 + 65536) % 65536

\* op2 is a u8 reinterpreted as i8
safe_signed_add(op1, op2) ==
    IF op2 < 128 THEN safe_w_add(op1, op2) ELSE safe_w_sub(op1, 256 - op2)

word(upper, lower) == upper * 256 + lower

word_up(val) == val \div 256

word_low(val) == val % 256

\* vec![0; n] contents kept sparsely: absent index = 0
Get(f, k) == IF k \in DOMAIN f THEN f[k] ELSE 0

Put(f, k, v) ==
    IF v = 0 THEN [x \in (DOMAIN f) \ {k} |-> f[x]]
    ELSE [x \in (DOMAIN f) \cup {k} |-> IF x = k THEN v ELSE f[x]]

Empty == [x \in {} |-> 0]

(***************************************************************************)
(* Memory map and I/O register addresses.                                  *)
(***************************************************************************)
ROM_SWITCHABLE_ADDR == 16384
VRAM_ADDR == 32768
RAM_SWITCHABLE_ADDR == 40960
RAM_BASE_ADDR == 49152
RAM_ECHO_ADDR == 57344
OAM_ADDR == 65024
IO_REGS_ADDR == 65280
HRAM_ADDR == 65408
BOOSTRAP_SIZE == 256
ROM_BANK_SIZE == 16384
OAM_SIZE == 160

P1 == 65280
DIV == 65284
TIMA == 65285
TMA == 65286
TAC == 65287
IF_REG == 65295
NR_10 == 65296
NR_11 == 65297
NR_12 == 65298
NR_13 == 65299
NR_14 == 65300
NR_21 == 65302
NR_22 == 65303
NR_24 == 65305
NR_30 == 65306
NR_31 == 65307
NR_32 == 65308
NR_33 == 65309
NR_41 == 65312
NR_44 == 65315
NR_50 == 65316
NR_51 == 65317
NR_52 == 65318
LCDC == 65344
STAT == 65345
LY == 65348
LYC == 65349
DMA_REG == 65350
BGP == 65351
OBP_0 == 65352
OBP_1 == 65353
WY == 65354
WX == 65355
BOOT == 65360
IE == 65535

\* IORegs::new : all zero except the listed defaults, indexed by addr - 0xFF00
IORegs_new ==
    (NR_10 - IO_REGS_ADDR :> 128) @@ (NR_11 - IO_REGS_ADDR :> 191)
 @@ (NR_12 - IO_REGS_ADDR :> 243) @@ (NR_14 - IO_REGS_ADDR :> 191)
 @@ (NR_21 - IO_REGS_ADDR :> 63)  @@ (NR_24 - IO_REGS_ADDR :> 191)
 @@ (NR_30 - IO_REGS_ADDR :> 127) @@ (NR_31 - IO_REGS_ADDR :> 255)
 @@ (NR_32 - IO_REGS_ADDR :> 159) @@ (NR_33 - IO_REGS_ADDR :> 191)
 @@ (NR_41 - IO_REGS_ADDR :> 255) @@ (NR_44 - IO_REGS_ADDR :> 191)
 @@ (NR_50 - IO_REGS_ADDR :> 119) @@ (NR_51 - IO_REGS_ADDR :> 243)
 @@ (NR_52 - IO_REGS_ADDR :> 241) @@ (LCDC - IO_REGS_ADDR :> 145)
 @@ (BGP - IO_REGS_ADDR :> 252)   @@ (OBP_0 - IO_REGS_ADDR :> 255)
 @@ (OBP_1 - IO_REGS_ADDR :> 255)

(***************************************************************************)
(* Cartridge: the ROM-only mapper (src/src/mem/mbc/romonly.rs).            *)
(* rom_banks is the 32 KiB image; its upper half doubles as the            *)
(* switchable RAM window.                                                  *)
(***************************************************************************)
RomOnly_new(rom) == [rom_banks |-> rom]

\* get_base_rom()[offset]
RomOnly_base_rom(mapper, offset) == Get(mapper.rom_banks, offset)

\* get_switchable_ram()[offset]
RomOnly_switchable_ram(mapper, offset) ==
    Get(mapper.rom_banks, ROM_BANK_SIZE + offset)

RomOnly_set_switchable_ram(mapper, offset, value) ==
    [mapper EXCEPT !.rom_banks = Put(@, ROM_BANK_SIZE + offset, value)]

(***************************************************************************)
(* Cartridge: MBC1 (src/src/mem/mbc/mbc1.rs).  rom and ram are kept        *)
(* sparsely, as every vec![0; n].                                          *)
(***************************************************************************)
RAM_BANK_SIZE == 8192
RAM_MODE == 1
ROM_MODE == 0

MBC1_new(rom) ==
    [ram |-> Empty, rom |-> rom, ram_enabled |-> FALSE, banking_mode |-> ROM_MODE,
     idx |-> 1]

\* on_status without the step from bank XX00000 to XX00001
MBC1_on_status_BankZero(mbc, addr, value) ==
    IF addr < 8192
    THEN [mbc EXCEPT !.ram_enabled =
              IF value = 0 THEN FALSE ELSE IF value = 10 THEN TRUE ELSE @]
    ELSE IF addr < 16384
         THEN [mbc EXCEPT !.idx = (value % 32) + (@ - (@ % 32))]
    ELSE IF addr < 24576
         THEN [mbc EXCEPT !.idx = (value % 4) * 32 + (@ - ((@ \div 32) % 4) * 32)]
    ELSE [mbc EXCEPT !.banking_mode = value % 2]

\* MBC1::on_status, addr within 0x0000..0x7FFF.  idx is a u8 whose bit 7 is
\* never set, so idx += 1 cannot overflow
MBC1_on_status(mbc, addr, value) ==
    IF addr < 8192
    THEN [mbc EXCEPT !.ram_enabled =
              IF value = 0 THEN FALSE ELSE IF value = 10 THEN TRUE ELSE @]
    ELSE IF addr < 16384
         THEN [mbc EXCEPT !.idx = (value % 32) + (@ - (@ % 32))
                                   + (IF value % 32 = 0 THEN 1 ELSE 0)]
    ELSE IF addr < 24576
         THEN [mbc EXCEPT !.idx = (value % 4) * 32 + (@ - ((@ \div 32) % 4) * 32)]
    ELSE [mbc EXCEPT !.banking_mode = value % 2]

\* the bank get_switchable_rom slices out of rom
MBC1_rom_idx(mbc) == mbc.idx % (IF mbc.banking_mode = ROM_MODE THEN 128 ELSE 32)

\* get_switchable_rom()[offset]
MBC1_get_switchable_rom(mbc, offset) ==
    Get(mbc.rom, MBC1_rom_idx(mbc) * ROM_BANK_SIZE + offset)

\* get_switchable_ram: the index in ram of the slice's first byte, -1 for
\* None.  The mask is (if RAM_MODE { 0b01100000 } else { 0 }) >> 5
MBC1_get_switchable_ram(mbc) ==
    IF ~mbc.ram_enabled THEN -1
    ELSE (mbc.idx % (IF mbc.banking_mode = RAM_MODE THEN 4 ELSE 1)) * RAM_BANK_SIZE

(***************************************************************************)
(* Cartridge: MBC3 (src/src/mem/mbc/mbc3.rs).  utc is the wall clock that  *)
(* Utc::now() reads; it belongs to the host, not to the struct.            *)
(***************************************************************************)
RTC_REG_SIZE == 5

MBC3_new(rom) ==
    [ram |-> Empty, rom |-> rom, ram_rtc_enabled |-> TRUE, rom_idx |-> 1,
     ram_idx |-> 0, rtc_latch |-> FALSE,
     rtc_reg |-> [i \in 0..(RTC_REG_SIZE - 1) |-> 0],
     utc |-> [second |-> 0, minute |-> 0, hour |-> 0, day |-> 1]]

MBC3_datetime_to_rtc(mbc, datetime) ==
    [mbc EXCEPT !.rtc_reg =
        [i \in 0..(RTC_REG_SIZE - 1) |->
            CASE i = 0 -> datetime.second
              [] i = 1 -> datetime.minute
              [] i = 2 -> datetime.hour
              [] i = 3 -> (datetime.day % 512) % 256
              [] i = 4 -> Or8(@[4], (datetime.day % 512) \div 256)]]

\* MBC3::on_status, addr within 0x0000..0x7FFF
MBC3_on_status(mbc, addr, value) ==
    IF addr < 8192 THEN [mbc EXCEPT !.ram_rtc_enabled = (value % 16 = 10)]
    ELSE IF addr < 16384
         THEN [mbc EXCEPT !.rom_idx = IF value % 128 = 0 THEN 1 ELSE value % 128]
    ELSE IF addr < 24576 THEN [mbc EXCEPT !.ram_idx = value]
    ELSE IF value = 0 THEN [mbc EXCEPT !.rtc_latch = TRUE]
    ELSE IF value = 1 /\ mbc.rtc_latch
         THEN MBC3_datetime_to_rtc(
                  [mbc EXCEPT !.rtc_latch = FALSE, !.rtc_reg[4] = Xor8(@, 128)],
                  mbc.utc)
    ELSE [mbc EXCEPT !.rtc_latch = FALSE]

\* get_switchable_rom taking the bank from the RAM bank register
MBC3_get_switchable_rom_ByRamIdx(mbc, offset) ==
    Get(mbc.rom, (mbc.ram_idx % 128) * ROM_BANK_SIZE + offset)

MBC3_get_switchable_rom(mbc, offset) ==
    Get(mbc.rom, mbc.rom_idx * ROM_BANK_SIZE + offset)

\* get_switchable_ram: [kind, start, len] of the slice, kind being "ram",
\* "rtc", "none" for None, or "panic" when the slice of rtc_reg is out of range
MBC3_get_switchable_ram(mbc) ==
    IF mbc.ram_idx <= 7
    THEN [kind |-> "ram", start |-> mbc.ram_idx * RAM_BANK_SIZE, len |-> RAM_BANK_SIZE]
    ELSE IF mbc.rtc_reg[4] < 128 THEN [kind |-> "none", start |-> 0, len |-> 0]
    ELSE IF mbc.ram_idx - 8 + 1 > RTC_REG_SIZE
         THEN [kind |-> "panic", start |-> 0, len |-> 0]
    ELSE [kind |-> "rtc", start |-> mbc.ram_idx - 8, len |-> 1]

(***************************************************************************)
(* BankController (src/src/mem/mbc/mod.rs): the calls the MMU makes, for   *)
(* the mapper type T the MMU was built with.                               *)
(***************************************************************************)
Mapper_type(mapper) ==
    IF "rom_banks" \in DOMAIN mapper THEN "RomOnly"
    ELSE IF "banking_mode" \in DOMAIN mapper THEN "MBC1"
    ELSE "MBC3"

\* get_addr_type, addr below 0x8000 or within the cartridge RAM window
Mapper_get_addr_type(mapper, addr) ==
    IF Mapper_type(mapper) # "RomOnly" /\ addr <= 32767 THEN "Status" ELSE "Write"

\* on_status storing the byte in the ROM vector
Mapper_on_status_IntoRom(mapper, addr, value) ==
    IF Mapper_type(mapper) = "RomOnly" THEN mapper
    ELSE [mapper EXCEPT !.rom = Put(@, addr, value)]

Mapper_on_status(mapper, addr, value) ==
    CASE Mapper_type(mapper) = "RomOnly" -> mapper
      [] Mapper_type(mapper) = "MBC1" -> MBC1_on_status(mapper, addr, value)
      [] Mapper_type(mapper) = "MBC3" -> MBC3_on_status(mapper, addr, value)

\* get_base_rom()[offset]
Mapper_get_base_rom(mapper, offset) ==
    IF Mapper_type(mapper) = "RomOnly" THEN RomOnly_base_rom(mapper, offset)
    ELSE Get(mapper.rom, offset)

\* get_switchable_rom()[offset], 0xFF for None
Mapper_get_switchable_rom(mapper, offset) ==
    CASE Mapper_type(mapper) = "RomOnly" -> 255
      [] Mapper_type(mapper) = "MBC1" -> MBC1_get_switchable_rom(mapper, offset)
      [] Mapper_type(mapper) = "MBC3" -> MBC3_get_switchable_rom(mapper, offset)

\* true when get_switchable_ram()[offset] panics, on a read or on a write
Mapper_switchable_ram_faults(mapper, offset) ==
    /\ Mapper_type(mapper) = "MBC3"
    /\ \/ MBC3_get_switchable_ram(mapper).kind = "panic"
       \/ /\ MBC3_get_switchable_ram(mapper).kind = "rtc"
          /\ offset >= MBC3_get_switchable_ram(mapper).len

\* get_switchable_ram()[offset], 0xFF for None
Mapper_get_switchable_ram(mapper, offset) ==
    CASE Mapper_type(mapper) = "RomOnly" -> RomOnly_switchable_ram(mapper, offset)
      [] Mapper_type(mapper) = "MBC1" ->
            IF MBC1_get_switchable_ram(mapper) = -1 THEN 255
            ELSE Get(mapper.ram, MBC1_get_switchable_ram(mapper) + offset)
      [] Mapper_type(mapper) = "MBC3" ->
            CASE MBC3_get_switchable_ram(mapper).kind = "ram" ->
                    Get(mapper.ram, MBC3_get_switchable_ram(mapper).start + offset)
              [] MBC3_get_switchable_ram(mapper).kind = "rtc" ->
                    mapper.rtc_reg[MBC3_get_switchable_ram(mapper).start]
              [] OTHER -> 255

\* get_switchable_ram()[offset] = value, nothing for None
Mapper_set_switchable_ram(mapper, offset, value) ==
    CASE Mapper_type(mapper) = "RomOnly" ->
            RomOnly_set_switchable_ram(mapper, offset, value)
      [] Mapper_type(mapper) = "MBC1" ->
            IF MBC1_get_switchable_ram(mapper) = -1 THEN mapper
            ELSE [mapper EXCEPT !.ram =
                     Put(@, MBC1_get_switchable_ram(mapper) + offset, value)]
      [] Mapper_type(mapper) = "MBC3" ->
            CASE MBC3_get_switchable_ram(mapper).kind = "ram" ->
                    [mapper EXCEPT !.ram =
                        Put(@, MBC3_get_switchable_ram(mapper).start + offset, value)]
              [] MBC3_get_switchable_ram(mapper).kind = "rtc" ->
                    [mapper EXCEPT !.rtc_reg[MBC3_get_switchable_ram(mapper).start] = value]
              [] OTHER -> mapper

(***************************************************************************)
(* MMU (src/src/mem/mmu.rs).                                               *)
(***************************************************************************)
MMU_new(mapper, bootstrap) ==
    [bootstrap |-> bootstrap, mapper |-> mapper, vram |-> Empty, oam |-> Empty,
     ram |-> Empty, hram |-> Empty, ioregs |-> IORegs_new, fault |-> FALSE]

\* the overlay test of read/write: addr < BOOSTRAP_SIZE && read(BOOT) == 0
MMU_booting(m, addr) ==
    addr < BOOSTRAP_SIZE /\ Get(m.ioregs, BOOT - IO_REGS_ADDR) = 0

\* true when MMU::read(addr) panics: OAM is indexed past its 0xA0 bytes
MMU_read_faults(m, addr) ==
    /\ ~MMU_booting(m, addr)
    /\ \/ addr >= OAM_ADDR + OAM_SIZE /\ addr < IO_REGS_ADDR
       \/ /\ addr >= RAM_SWITCHABLE_ADDR /\ addr < RAM_BASE_ADDR
          /\ Mapper_switchable_ram_faults(m.mapper, addr - RAM_SWITCHABLE_ADDR)

MMU_read(m, addr) ==
    IF MMU_booting(m, addr) THEN Get(m.bootstrap, addr)
    ELSE IF addr < ROM_SWITCHABLE_ADDR THEN Mapper_get_base_rom(m.mapper, addr)
    ELSE IF addr < VRAM_ADDR
         THEN Mapper_get_switchable_rom(m.mapper, addr - ROM_SWITCHABLE_ADDR)
    ELSE IF addr < RAM_SWITCHABLE_ADDR THEN Get(m.vram, addr - VRAM_ADDR)
    ELSE IF addr < RAM_BASE_ADDR
         THEN Mapper_get_switchable_ram(m.mapper, addr - RAM_SWITCHABLE_ADDR)
    ELSE IF addr < RAM_ECHO_ADDR THEN Get(m.ram, addr - RAM_BASE_ADDR)
    ELSE IF addr < OAM_ADDR THEN Get(m.ram, addr - RAM_ECHO_ADDR)
    ELSE IF addr < IO_REGS_ADDR THEN Get(m.oam, addr - OAM_ADDR)
    ELSE IF addr < HRAM_ADDR \/ addr = IE
         THEN Get(m.ioregs, addr - IO_REGS_ADDR)
    ELSE Get(m.hram, addr - HRAM_ADDR)

MMU_write(m, addr, byte) ==
    IF m.fault THEN m
    ELSE IF MMU_booting(m, addr) THEN [m EXCEPT !.fault = TRUE]
    ELSE IF addr < VRAM_ADDR
         THEN IF Mapper_get_addr_type(m.mapper, addr) = "Status"
              THEN [m EXCEPT !.mapper = Mapper_on_status(@, addr, byte)]
              ELSE m
    ELSE IF addr < RAM_SWITCHABLE_ADDR
         THEN [m EXCEPT !.vram = Put(@, addr - VRAM_ADDR, byte)]
    ELSE IF addr < RAM_BASE_ADDR
         THEN IF Mapper_switchable_ram_faults(m.mapper, addr - RAM_SWITCHABLE_ADDR)
              THEN [m EXCEPT !.fault = TRUE]
              ELSE [m EXCEPT !.mapper =
                      Mapper_set_switchable_ram(@, addr - RAM_SWITCHABLE_ADDR, byte)]
    ELSE IF addr < RAM_ECHO_ADDR
         THEN [m EXCEPT !.ram = Put(@, addr - RAM_BASE_ADDR, byte)]
    ELSE IF addr < OAM_ADDR
         THEN [m EXCEPT !.ram = Put(@, addr - RAM_ECHO_ADDR, byte)]
    ELSE IF addr < IO_REGS_ADDR
         THEN IF addr - OAM_ADDR < OAM_SIZE
              THEN [m EXCEPT !.oam = Put(@, addr - OAM_ADDR, byte)]
              ELSE [m EXCEPT !.fault = TRUE]
    ELSE IF addr < HRAM_ADDR \/ addr = IE
         THEN [m EXCEPT !.ioregs = Put(@, addr - IO_REGS_ADDR, byte)]
    ELSE [m EXCEPT !.hram = Put(@, addr - HRAM_ADDR, byte)]

MMU_read_bit(m, addr, n) == Bit(MMU_read(m, addr), n)

MMU_set_bit(m, addr, n, flg) ==
    LET updated(byte) ==
            IF flg = Bit(byte, n) THEN byte
            ELSE IF flg THEN byte + 2^n ELSE byte - 2^n
    IN  IF MMU_read_faults(m, addr) THEN [m EXCEPT !.fault = TRUE]
        ELSE MMU_write(m, addr, updated(MMU_read(m, addr)))

(***************************************************************************)
(* GPU register accessors (src/src/dev/gpu.rs).                            *)
(***************************************************************************)
HBLANK == 0
VBLANK == 1
OAM_SEARCH == 2
LCD_TRANSFER == 3

GPU_MODE(m) == MMU_read(m, STAT) % 4

GPU_set_MODE(m, mode) ==
    LET stat == MMU_read(m, STAT) - (MMU_read(m, STAT) % 4)
    IN  MMU_write(m, STAT, stat + mode)

GPU_LCD_DISPLAY_ENABLE(m) == MMU_read_bit(m, LCDC, 7)

\* update_ly(): mirror ly into LY and recompute the coincidence flag
GPU_update_ly(g, m) ==
    LET lyc == MMU_read(m, LYC)
    IN  MMU_set_bit(MMU_write(m, LY, g.ly), STAT, 2, g.ly = lyc)

SPRITE_COUNT == 40
SCANLINE_SPRITE_COUNT == 10

\* Default::default() of Sprite
NoSprite ==
    [y |-> 0, x |-> 0, tile_idx |-> 0, priority |-> FALSE, y_flip |-> FALSE,
     x_flip |-> FALSE, palette |-> FALSE]

\* an array of sprites kept sparsely: absent index = NoSprite
GetSprite(sprites, i) == IF i \in DOMAIN sprites THEN sprites[i] ELSE NoSprite

\* [0xFF; SCANLINE_SPRITE_COUNT]
NoSpritesLine == [j \in 1..SCANLINE_SPRITE_COUNT |-> 255]

GPU_new(m) ==
    LET g == [ly |-> 0, lx |-> 0, wy |-> 0, win_rendered |-> FALSE,
              sprites |-> [i \in {} |-> NoSprite], sprites_line |-> NoSpritesLine]
        m1 == MMU_set_bit(m, LCDC, 7, TRUE)
        m2 == GPU_set_MODE(m1, OAM_SEARCH)
    IN  [gpu |-> g, mmu |-> GPU_update_ly(g, m2)]

(***************************************************************************)
(* State: the middleware between CPU and bus (src/src/state.rs).           *)
(***************************************************************************)
Timer_new == [div_cycle |-> 0, tima_cycle |-> 0]

DMA_new == [active |-> FALSE]

Joypad_new ==
    [up |-> FALSE, down |-> FALSE, left |-> FALSE, right |-> FALSE,
     a |-> FALSE, b |-> FALSE, select |-> FALSE, start |-> FALSE,
     interrupt |-> FALSE]

\* Channel1Regs: the fields of NR10..NR14 and NR52 as the channel reads
\* them (ENVELOPE_DIRECTION is read from NR22; CHANNEL_ENABLED is ENABLED)
Channel1Regs(m) ==
    [SWEEP_TIME |-> MMU_read(m, NR_10) \div 16,
     SWEEP_SHIFTS |-> MMU_read(m, NR_10) % 8,
     SWEEP_DIRECTION |-> MMU_read_bit(m, NR_10, 3),
     SOUND_LENGTH |-> MMU_read(m, NR_11) % 64,
     WAVE_DUTY |-> MMU_read(m, NR_11) \div 64,
     ENVELOPE_SHIFTS |-> MMU_read(m, NR_12) % 8,
     ENVELOPE_DIRECTION |-> MMU_read_bit(m, NR_22, 3),
     INITIAL_VOLUME |-> MMU_read(m, NR_12) \div 16,
     FREQ |-> (MMU_read(m, NR_14) % 8) * 256 + MMU_read(m, NR_13),
     COUNTER_CONSECUTIVE_SELECT |-> MMU_read_bit(m, NR_14, 6),
     INITIAL |-> MMU_read_bit(m, NR_14, 7),
     CHANNEL_ENABLED |-> MMU_read_bit(m, NR_52, 0)]

\* SquareWaveChannel::new for channel 1.  The sample buffer is left out
SquareWaveChannel_new(m) ==
    LET from(regs) ==
            [frequency |-> regs.FREQ, volume |-> regs.INITIAL_VOLUME,
             length |-> regs.SOUND_LENGTH, timer |-> 2048 - regs.FREQ,
             duty_cycle |-> 0, sweep_timer |-> regs.SWEEP_TIME,
             envelope_count |-> regs.ENVELOPE_SHIFTS, sample_counter |-> 0]
    IN  from(Channel1Regs(m))

\* APU::new.  Of the four channels the model keeps channel 1
APU_new(m) ==
    [sequencer_cycle |-> 0, sequencer_step |-> 0, chan1 |-> SquareWaveChannel_new(m)]

State_new(mapper, bootstrap) ==
    LET g == GPU_new(MMU_new(mapper, bootstrap))
    IN  [mmu |-> g.mmu, gpu |-> g.gpu, apu |-> APU_new(g.mmu), timer |-> Timer_new,
         dma |-> DMA_new, joypad |-> Joypad_new]

\* Timer::reset_internal_div / reset_internal_tima: called by safe_write but
\* absent from timer.rs; they restart the pre-divider as Timer::new does
Timer_reset_internal_div(t) == [t EXCEPT !.div_cycle = 0]

Timer_reset_internal_tima(t) == [t EXCEPT !.tima_cycle = 0]

\* safe_write without its match on the address: the store alone
safe_write_StoreOnly(s, addr, value) ==
    [s EXCEPT !.mmu = MMU_write(s.mmu, addr, value)]

\* State::safe_write.  Its LYC arm calls self.gpu.update, which gpu.rs
\* does not define; the LY = LYC comparison it names is GPU::update_ly
safe_write(s, addr, value) ==
    LET written(m1) ==
            IF m1.fault THEN [s EXCEPT !.mmu = m1]
            ELSE IF addr = LYC THEN [s EXCEPT !.mmu = GPU_update_ly(s.gpu, m1)]
            ELSE IF addr = DIV
                 THEN [s EXCEPT !.mmu = MMU_write(m1, addr, 0),
                                !.timer = Timer_reset_internal_div(@)]
            ELSE IF addr = TIMA
                 THEN [s EXCEPT !.mmu = m1, !.timer = Timer_reset_internal_tima(@)]
            ELSE IF addr = DMA_REG
                 THEN [s EXCEPT !.mmu = m1, !.dma = [active |-> TRUE]]
            ELSE [s EXCEPT !.mmu = m1]
    IN  written(MMU_write(s.mmu, addr, value))

\* addr + 1 is a plain u16 addition: at 0xFFFF it panics in a debug build
\* and wraps in a release build
AddrPlus(s, addr, n) == (addr + n) % 65536

AddrOverflows(addr, n) == addr + n > 65535 /\ build = "debug"

Faulted(s) == [s EXCEPT !.mmu.fault = TRUE]

write_word(s, addr, w) ==
    LET second(s1) ==
            IF AddrOverflows(addr, 1) THEN Faulted(s1)
            ELSE safe_write(s1, AddrPlus(s1, addr, 1), word_up(w))
    IN  second(safe_write(s, addr, word_low(w)))

safe_read(s, addr) == MMU_read(s.mmu, addr)

read_word(s, addr) ==
    safe_read(s, addr) + 256 * safe_read(s, AddrPlus(s, addr, 1))

\* true when State::read_word(addr) panics
read_word_faults(s, addr) ==
    \/ MMU_read_faults(s.mmu, addr)
    \/ AddrOverflows(addr, 1)
    \/ MMU_read_faults(s.mmu, AddrPlus(s, addr, 1))

(***************************************************************************)
(* CPU (src/src/dev/cpu.rs): construction, stack, interrupt dispatch.      *)
(***************************************************************************)
CPU_new ==
    [A |-> 1, BC |-> 19, DE |-> 216, HL |-> 333, SP |-> 65534, PC |-> 0,
     Z |-> TRUE, N |-> FALSE, H |-> TRUE, C |-> TRUE,
     IME |-> TRUE, STOP |-> FALSE, HALT |-> FALSE]

JOYPAD_INT == 4
IVT_SIZE == 5
IVT == <<64, 72, 80, 88, 96>>

\* a pair (cpu, state) threaded through the CPU's methods
CS(c, s) == [cpu |-> c, state |-> s]

push_u16(c, s, val) ==
    LET sp == safe_w_sub(c.SP, 2)
    IN  CS([c EXCEPT !.SP = sp], write_word(s, sp, val))

CPU_call(c, s, addr) ==
    LET jump(p) == CS([p.cpu EXCEPT !.PC = addr], p.state)
    IN  jump(push_u16(c, s, c.PC))

\* the for loop of interrupts(): the bit that is serviced, or -1 when the
\* loop ends (or breaks) without finding one
ScanFrom(stop, in_e, in_f, from) ==
    LET is_requested(bit) == Bit(in_f, bit) /\ Bit(in_e, bit)
        scan[bit \in 0..IVT_SIZE] ==
            IF bit = IVT_SIZE THEN -1
            ELSE IF stop /\ bit # JOYPAD_INT THEN -1
            ELSE IF is_requested(bit) THEN bit
            ELSE scan[bit + 1]
    IN  scan[from]

\* a scan that starts at source 1 and so never services V-Blank
InterruptScan_FromOne(stop, in_e, in_f) == ScanFrom(stop, in_e, in_f, 1)

InterruptScan(stop, in_e, in_f) == ScanFrom(stop, in_e, in_f, 0)

\* a wake-up that dispatches whether or not IME is set
InterruptService_IgnoringIME(c, s, bit) ==
    LET c1 == [c EXCEPT !.HALT = FALSE, !.STOP = FALSE]
        m1 == MMU_set_bit(s.mmu, IF_REG, bit, FALSE)
        called(r) == [cpu |-> [r.cpu EXCEPT !.IME = FALSE], state |-> r.state, ret |-> 5]
    IN  called(CPU_call(c1, [s EXCEPT !.mmu = m1], IVT[bit + 1]))

\* the body of `if is_requested(bit)`
InterruptService(c, s, bit) ==
    LET c1 == [c EXCEPT !.HALT = FALSE, !.STOP = FALSE]
        m1 == MMU_set_bit(s.mmu, IF_REG, bit, FALSE)
        called(r) == [cpu |-> [r.cpu EXCEPT !.IME = FALSE], state |-> r.state, ret |-> 5]
    IN  IF c.IME
        THEN called(CPU_call(c1, [s EXCEPT !.mmu = m1], IVT[bit + 1]))
        ELSE [cpu |-> c1, state |-> s, ret |-> 5]

CPU_interrupts(c, s) ==
    IF ~c.STOP /\ ~c.HALT /\ ~c.IME THEN [cpu |-> c, state |-> s, ret |-> 0]
    ELSE LET found(bit) ==
                 IF bit = -1 THEN [cpu |-> c, state |-> s, ret |-> 0]
                 ELSE InterruptService(c, s, bit)
         IN  found(InterruptScan(c.STOP, safe_read(s, IE), safe_read(s, IF_REG)))

(***************************************************************************)
(* CPU: registers and the instruction handlers of decode().  A handler     *)
(* yields the CPU, the State and the machine cycles it reports.            *)
(***************************************************************************)
R(c, s, n) == [cpu |-> c, state |-> s, ret |-> n]

\* a read of addr: the State is unchanged unless MMU::read panics
Touch(s, addr) == IF MMU_read_faults(s.mmu, addr) THEN Faulted(s) ELSE s

ZP_ADDR == 65280
ADDR_HL_IDX == 6

\* Reg is a little-endian union of a u16 and two u8
set_up(w, val) == word(val, word_low(w))

set_low(w, val) == word(word_up(w), val)

CPU_reg(c, s, idx) ==
    CASE idx = 0 -> word_up(c.BC)
      [] idx = 1 -> word_low(c.BC)
      [] idx = 2 -> word_up(c.DE)
      [] idx = 3 -> word_low(c.DE)
      [] idx = 4 -> word_up(c.HL)
      [] idx = 5 -> word_low(c.HL)
      [] idx = 6 -> safe_read(s, c.HL)
      [] idx = 7 -> c.A

\* the State after reg(idx) has read its operand
CPU_reg_read(c, s, idx) == IF idx = ADDR_HL_IDX THEN Touch(s, c.HL) ELSE s

CPU_reg_set(c, s, idx, val) ==
    CASE idx = 0 -> CS([c EXCEPT !.BC = set_up(@, val)], s)
      [] idx = 1 -> CS([c EXCEPT !.BC = set_low(@, val)], s)
      [] idx = 2 -> CS([c EXCEPT !.DE = set_up(@, val)], s)
      [] idx = 3 -> CS([c EXCEPT !.DE = set_low(@, val)], s)
      [] idx = 4 -> CS([c EXCEPT !.HL = set_up(@, val)], s)
      [] idx = 5 -> CS([c EXCEPT !.HL = set_low(@, val)], s)
      [] idx = 6 -> CS(c, safe_write(s, c.HL, val))
      [] idx = 7 -> CS([c EXCEPT !.A = val], s)

\* F() that also reports the carry in bit 0
CPU_F_LowCarry(c) ==
    (IF c.Z THEN 128 ELSE 0) + (IF c.N THEN 64 ELSE 0)
  + (IF c.H THEN 32 ELSE 0) + (IF c.C THEN 17 ELSE 0)

CPU_F(c) ==
    (IF c.Z THEN 128 ELSE 0) + (IF c.N THEN 64 ELSE 0)
  + (IF c.H THEN 32 ELSE 0) + (IF c.C THEN 16 ELSE 0)

CPU_set_F(c, val) ==
    [c EXCEPT !.Z = Bit(val, 7), !.N = Bit(val, 6), !.H = Bit(val, 5),
              !.C = Bit(val, 4)]

\* pop_u16 that leaves SP where it was
pop_u16_KeepSP(c, s) ==
    [cpu |-> c,
     state |-> IF read_word_faults(s, c.SP) THEN Faulted(s) ELSE s,
     val |-> read_word(s, c.SP)]

pop_u16(c, s) ==
    [cpu |-> [c EXCEPT !.SP = safe_w_add(c.SP, 2)],
     state |-> IF read_word_faults(s, c.SP) THEN Faulted(s) ELSE s,
     val |-> read_word(s, c.SP)]

CPU_ret(c, s) ==
    LET jump(p) == CS([p.cpu EXCEPT !.PC = p.val], p.state)
    IN  jump(pop_u16(c, s))

\* carry and half-carry predicates
add_b_carry(op1, op2) == op1 + op2 > 255

add_w_carry(op1, op2) == op1 + op2 > 65535

sub_b_carry(op1, op2) == op1 < op2

add_signed_carry(op1, op2) == (safe_signed_add(op1, op2) % 256) < (op1 % 256)

add_b_hcarry(op1, op2) == (op1 % 16) + (op2 % 16) > 15

add_w_hcarry(op1, op2) == (op1 % 4096) + (op2 % 4096) > 4095

sub_b_hcarry(op1, op2) == (op1 % 16) < (op2 % 16)

add_signed_hcarry(op1, op2) == (safe_signed_add(op1, op2) % 16) < (op1 % 16)

\* DAA adjusting as after an addition whatever N is
DAA_AddOnly(c) ==
    LET hi == c.C \/ c.A > 153
        add1 == IF hi THEN safe_b_add(c.A, 96) ELSE c.A
        add2 == IF c.H \/ (add1 % 16) > 9 THEN safe_b_add(add1, 6) ELSE add1
    IN  [c EXCEPT !.A = add2, !.C = (c.C \/ hi), !.Z = (add2 = 0), !.H = FALSE]

\* 0x27 DAA
DAA(c) ==
    LET sub1 == IF c.C THEN safe_b_sub(c.A, 96) ELSE c.A
        sub2 == IF c.H THEN safe_b_sub(sub1, 6) ELSE sub1
        hi == c.C \/ c.A > 153
        add1 == IF hi THEN safe_b_add(c.A, 96) ELSE c.A
        add2 == IF c.H \/ (add1 % 16) > 9 THEN safe_b_add(add1, 6) ELSE add1
        a == IF c.N THEN sub2 ELSE add2
        carry == IF c.N THEN c.C ELSE (c.C \/ hi)
    IN  [c EXCEPT !.A = a, !.C = carry, !.Z = (a = 0), !.H = FALSE]

MiscOps == {0, 16, 118, 243, 251, 39, 55, 47, 63}

ExecMisc(c, s, op, op1, op2) ==
    CASE op = 0 -> R(c, s, 1)
      [] op = 16 -> R([c EXCEPT !.STOP = TRUE], s, 1)
      [] op = 118 -> R([c EXCEPT !.HALT = TRUE], s, 1)
      [] op = 243 -> R([c EXCEPT !.IME = FALSE], s, 1)
      [] op = 251 -> R([c EXCEPT !.IME = TRUE], s, 1)
      [] op = 39 -> R(DAA(c), s, 1)
      [] op = 55 -> R([c EXCEPT !.N = FALSE, !.H = FALSE, !.C = TRUE], s, 1)
      [] op = 47 -> R([c EXCEPT !.N = TRUE, !.H = TRUE, !.A = Xor8(@, 255)], s, 1)
      [] op = 63 -> R([c EXCEPT !.N = FALSE, !.H = FALSE, !.C = ~@], s, 1)

\* 0x40..0x7F except 0x76: LD reg, reg
LdRegOps == (64..127) \ {118}

ExecLdReg(c, s, op, op1, op2) ==
    LET idx == op % 8
        dst == (op \div 8) % 8
        val == CPU_reg(c, s, idx)
        s1 == CPU_reg_read(c, s, idx)
        w == CPU_reg_set(c, s1, dst, val)
    IN  R(w.cpu, w.state, IF idx = ADDR_HL_IDX \/ dst = ADDR_HL_IDX THEN 2 ELSE 1)

Ld8Ops == {2, 18, 34, 50, 10, 26, 42, 58, 6, 22, 38, 54, 14, 30, 46, 62,
           224, 240, 226, 242, 234, 250}

ExecLd8(c, s, op, op1, op2) ==
    CASE op = 2 -> R(c, safe_write(s, c.BC, c.A), 2)
      [] op = 18 -> R(c, safe_write(s, c.DE, c.A), 2)
      [] op = 34 -> R([c EXCEPT !.HL = safe_w_add(@, 1)], safe_write(s, c.HL, c.A), 2)
      [] op = 50 -> R([c EXCEPT !.HL = safe_w_sub(@, 1)], safe_write(s, c.HL, c.A), 2)
      [] op = 10 -> R([c EXCEPT !.A = safe_read(s, c.BC)], Touch(s, c.BC), 2)
      [] op = 26 -> R([c EXCEPT !.A = safe_read(s, c.DE)], Touch(s, c.DE), 2)
      [] op = 42 -> R([c EXCEPT !.A = safe_read(s, c.HL), !.HL = safe_w_add(@, 1)],
                      Touch(s, c.HL), 2)
      [] op = 58 -> R([c EXCEPT !.A = safe_read(s, c.HL), !.HL = safe_w_sub(@, 1)],
                      Touch(s, c.HL), 2)
      [] op = 6 -> R([c EXCEPT !.BC = set_up(@, op1)], s, 2)
      [] op = 22 -> R([c EXCEPT !.DE = set_up(@, op1)], s, 2)
      [] op = 38 -> R([c EXCEPT !.HL = set_up(@, op1)], s, 2)
      [] op = 54 -> R(c, safe_write(s, c.HL, op1), 3)
      [] op = 14 -> R([c EXCEPT !.BC = set_low(@, op1)], s, 2)
      [] op = 30 -> R([c EXCEPT !.DE = set_low(@, op1)], s, 2)
      [] op = 46 -> R([c EXCEPT !.HL = set_low(@, op1)], s, 2)
      [] op = 62 -> R([c EXCEPT !.A = op1], s, 2)
      [] op = 224 -> R(c, safe_write(s, ZP_ADDR + op1, c.A), 3)
      [] op = 240 -> R([c EXCEPT !.A = safe_read(s, ZP_ADDR + op1)], s, 3)
      [] op = 226 -> R(c, safe_write(s, ZP_ADDR + word_low(c.BC), c.A), 2)
      [] op = 242 -> R([c EXCEPT !.A = safe_read(s, ZP_ADDR + word_low(c.BC))], s, 2)
      [] op = 234 -> R(c, safe_write(s, word(op2, op1), c.A), 4)
      [] op = 250 -> R([c EXCEPT !.A = safe_read(s, word(op2, op1))],
                       Touch(s, word(op2, op1)), 4)

Ld16Ops == {1, 17, 33, 49, 8, 248, 249}

ExecLd16(c, s, op, op1, op2) ==
    CASE op = 1 -> R([c EXCEPT !.BC = word(op2, op1)], s, 3)
      [] op = 17 -> R([c EXCEPT !.DE = word(op2, op1)], s, 3)
      [] op = 33 -> R([c EXCEPT !.HL = word(op2, op1)], s, 3)
      [] op = 49 -> R([c EXCEPT !.SP = word(op2, op1)], s, 3)
      [] op = 8 -> R(c, write_word(s, word(op2, op1), c.SP), 5)
      [] op = 248 -> R([c EXCEPT !.H = add_signed_hcarry(c.SP, op1),
                                 !.C = add_signed_carry(c.SP, op1),
                                 !.Z = FALSE, !.N = FALSE,
                                 !.HL = safe_signed_add(c.SP, op1)], s, 3)
      [] op = 249 -> R([c EXCEPT !.SP = c.HL], s, 2)

StackOps == {197, 213, 229, 245, 193, 209, 225, 241}

ExecStack(c, s, op, op1, op2) ==
    LET push(val) == LET p == push_u16(c, s, val) IN R(p.cpu, p.state, 4)
        p == pop_u16(c, s)
    IN  CASE op = 197 -> push(c.BC)
          [] op = 213 -> push(c.DE)
          [] op = 229 -> push(c.HL)
          [] op = 245 -> push(word(c.A, CPU_F(c)))
          [] op = 193 -> R([p.cpu EXCEPT !.BC = p.val], p.state, 3)
          [] op = 209 -> R([p.cpu EXCEPT !.DE = p.val], p.state, 3)
          [] op = 225 -> R([p.cpu EXCEPT !.HL = p.val], p.state, 3)
          [] op = 241 -> R([CPU_set_F(p.cpu, word_low(p.val)) EXCEPT !.A = word_up(p.val)],
                           p.state, 3)

\* the eight 8-bit ALU operations, numbered as bits 5..3 of 0x80..0xBF:
\* ADD, ADC, SUB, SBC, AND, XOR, OR, CP
Alu(c, kind, val) ==
    LET carry == IF c.C THEN 1 ELSE 0
        sum == safe_b_add(c.A, val)
        dif == safe_b_sub(c.A, val)
    IN  CASE kind = 0 ->
               [c EXCEPT !.N = FALSE, !.H = add_b_hcarry(c.A, val),
                         !.C = add_b_carry(c.A, val), !.A = sum, !.Z = (sum = 0)]
          [] kind = 1 ->
               [c EXCEPT !.H = add_b_hcarry(c.A, val) \/ add_b_hcarry(sum, carry),
                         !.C = add_b_carry(c.A, val) \/ add_b_carry(sum, carry),
                         !.A = safe_b_add(sum, carry), !.N = FALSE,
                         !.Z = (safe_b_add(sum, carry) = 0)]
          [] kind = 2 ->
               [c EXCEPT !.H = sub_b_hcarry(c.A, val), !.C = sub_b_carry(c.A, val),
                         !.A = dif, !.N = TRUE, !.Z = (dif = 0)]
          [] kind = 3 ->
               [c EXCEPT !.H = sub_b_hcarry(c.A, val) \/ sub_b_hcarry(dif, carry),
                         !.C = sub_b_carry(c.A, val) \/ sub_b_carry(dif, carry),
                         !.A = safe_b_sub(dif, carry), !.N = TRUE,
                         !.Z = (safe_b_sub(dif, carry) = 0)]
          [] kind = 4 ->
               [c EXCEPT !.A = And8(c.A, val), !.N = FALSE, !.H = TRUE, !.C = FALSE,
                         !.Z = (And8(c.A, val) = 0)]
          [] kind = 5 ->
               [c EXCEPT !.A = Xor8(c.A, val), !.N = FALSE, !.H = FALSE, !.C = FALSE,
                         !.Z = (Xor8(c.A, val) = 0)]
          [] kind = 6 ->
               [c EXCEPT !.A = Or8(c.A, val), !.N = FALSE, !.H = FALSE, !.C = FALSE,
                         !.Z = (Or8(c.A, val) = 0)]
          [] kind = 7 ->
               [c EXCEPT !.N = TRUE, !.H = sub_b_hcarry(c.A, val),
                         !.C = sub_b_carry(c.A, val), !.Z = (c.A = val)]

AluRegOps == 128..191

AluImmOps == {198, 206, 214, 222, 230, 238, 246, 254}

IncDecOps == {4, 20, 36, 52, 12, 28, 44, 60, 5, 21, 37, 53, 13, 29, 45, 61}

ExecAlu8(c, s, op, op1, op2) ==
    IF op \in AluRegOps
    THEN LET idx == op % 8
         IN  R(Alu(c, (op \div 8) % 8, CPU_reg(c, s, idx)), CPU_reg_read(c, s, idx),
               IF idx = ADDR_HL_IDX THEN 2 ELSE 1)
    ELSE IF op \in AluImmOps
    THEN R(Alu(c, (op - 198) \div 8, op1), s, 2)
    ELSE LET inc == (op % 16) \in {4, 12}
             idx == 2 * (op \div 16) + (IF (op % 16) \in {12, 13} THEN 1 ELSE 0)
             old == CPU_reg(c, s, idx)
             val == IF inc THEN safe_b_add(old, 1) ELSE safe_b_sub(old, 1)
             c1 == [c EXCEPT !.N = ~inc,
                             !.H = IF inc THEN add_b_hcarry(old, 1)
                                  ELSE sub_b_hcarry(old, 1),
                             !.Z = (val = 0)]
             w == CPU_reg_set(c1, CPU_reg_read(c, s, idx), idx, val)
         IN  R(w.cpu, w.state, IF idx = ADDR_HL_IDX THEN 2 ELSE 1)

Alu16Ops == {3, 19, 35, 51, 11, 27, 43, 59, 9, 25, 41, 57, 232}

ExecAlu16(c, s, op, op1, op2) ==
    LET addHL(v) == [c EXCEPT !.N = FALSE, !.H = add_w_hcarry(c.HL, v),
                              !.C = add_w_carry(c.HL, v), !.HL = safe_w_add(c.HL, v)]
    IN  CASE op = 3 -> R([c EXCEPT !.BC = safe_w_add(@, 1)], s, 2)
          [] op = 19 -> R([c EXCEPT !.DE = safe_w_add(@, 1)], s, 2)
          [] op = 35 -> R([c EXCEPT !.HL = safe_w_add(@, 1)], s, 2)
          [] op = 51 -> R([c EXCEPT !.SP = safe_w_add(@, 1)], s, 2)
          [] op = 11 -> R([c EXCEPT !.BC = safe_w_sub(@, 1)], s, 2)
          [] op = 27 -> R([c EXCEPT !.DE = safe_w_sub(@, 1)], s, 2)
          [] op = 43 -> R([c EXCEPT !.HL = safe_w_sub(@, 1)], s, 2)
          [] op = 59 -> R([c EXCEPT !.SP = safe_w_sub(@, 1)], s, 2)
          [] op = 9 -> R(addHL(c.BC), s, 2)
          [] op = 25 -> R(addHL(c.DE), s, 2)
          [] op = 41 -> R(addHL(c.HL), s, 2)
          [] op = 57 -> R(addHL(c.SP), s, 2)
          [] op = 232 -> R([c EXCEPT !.H = add_signed_hcarry(c.SP, op1),
                                     !.C = add_signed_carry(c.SP, op1),
                                     !.SP = safe_signed_add(c.SP, op1),
                                     !.N = FALSE, !.Z = FALSE], s, 4)

\* u8 shifts
shl1(val) == (val * 2) % 256

shr1(val) == val \div 2

RotAOps == {7, 23, 15, 31}

ExecRotA(c, s, op, op1, op2) ==
    LET c0 == [c EXCEPT !.N = FALSE, !.Z = FALSE, !.H = FALSE]
        old == IF c.C THEN 1 ELSE 0
    IN  CASE op = 7 -> R([c0 EXCEPT !.C = c.A >= 128,
                                    !.A = safe_b_add(shl1(c.A), c.A \div 128)], s, 1)
          [] op = 23 -> R([c0 EXCEPT !.C = c.A >= 128,
                                     !.A = safe_b_add(shl1(c.A), old)], s, 1)
          [] op = 15 -> R([c0 EXCEPT !.C = (c.A % 2 = 1),
                                     !.A = safe_b_add(shr1(c.A), 128 * (c.A % 2))], s, 1)
          [] op = 31 -> R([c0 EXCEPT !.C = (c.A % 2 = 1),
                                     !.A = safe_b_add(shr1(c.A), 128 * old)], s, 1)

\* handle_cb: the 0xCB-prefixed instruction `op`
handle_cb(c, s, op) ==
    LET idx == op % 8
        bit_idx == (op \div 8) % 8
        val == CPU_reg(c, s, idx)
        s1 == CPU_reg_read(c, s, idx)
        old == IF c.C THEN 1 ELSE 0
        cycles_ == IF (op % 16) \in {6, 14} THEN 4 ELSE 2
        \* rotates and shifts: the new value and the new carry
        shifted(updated, carry) ==
            LET w == CPU_reg_set(c, s1, idx, updated)
            IN  R([w.cpu EXCEPT !.C = carry, !.Z = (updated = 0), !.H = FALSE,
                                !.N = FALSE], w.state, cycles_)
        plain(updated) ==
            LET w == CPU_reg_set(c, s1, idx, updated)
            IN  R(w.cpu, w.state, cycles_)
    IN  CASE op < 8 -> shifted(shl1(val) + val \div 128, val >= 128)
          [] op >= 8 /\ op < 16 -> shifted(shr1(val) + 128 * (val % 2), val % 2 = 1)
          [] op >= 16 /\ op < 24 -> shifted(shl1(val) + old, val >= 128)
          [] op >= 24 /\ op < 32 -> shifted(shr1(val) + 128 * old, val % 2 = 1)
          [] op >= 32 /\ op < 40 -> shifted(shl1(val), val >= 128)
          [] op >= 40 /\ op < 48 ->
               shifted(shr1(val) + 128 * (val \div 128), val % 2 = 1)
          [] op >= 48 /\ op < 56 -> shifted((val % 16) * 16 + val \div 16, FALSE)
          [] op >= 56 /\ op < 64 -> shifted(shr1(val), val % 2 = 1)
          [] op >= 64 /\ op < 128 ->
               R([c EXCEPT !.Z = ~Bit(val, bit_idx), !.N = FALSE, !.H = TRUE], s1, cycles_)
          [] op >= 128 /\ op < 192 ->
               plain(IF Bit(val, bit_idx) THEN val - 2^bit_idx ELSE val)
          [] op >= 192 -> plain(IF Bit(val, bit_idx) THEN val ELSE val + 2^bit_idx)

JumpOps == {194, 210, 195, 233, 202, 218, 32, 48, 24, 40, 56}

RstOps == {199, 207, 215, 223, 231, 239, 247, 255}

CallOps == {205, 196, 212, 204, 220}

RetOps == {201, 217, 192, 208, 200, 216}

\* the condition of a conditional jump, call or return (bits 4..3 of the
\* opcode: NZ, Z, NC, C)
Cond(c, op) ==
    CASE (op \div 8) % 4 = 0 -> ~c.Z
      [] (op \div 8) % 4 = 1 -> c.Z
      [] (op \div 8) % 4 = 2 -> ~c.C
      [] (op \div 8) % 4 = 3 -> c.C

\* the instructions that test a condition
ConditionalOps == {194, 202, 210, 218, 32, 40, 48, 56, 196, 204, 212, 220,
                   192, 200, 208, 216}

\* the instruction transfers control: unconditional, or its condition holds
Taken(c, op) ==
    /\ op \in JumpOps \cup RstOps \cup CallOps \cup RetOps
    /\ op \in ConditionalOps => Cond(c, op)

ExecJump(c, s, op, op1, op2) ==
    IF op \in {194, 210, 195, 202, 218}
    THEN IF Taken(c, op) THEN R([c EXCEPT !.PC = word(op2, op1)], s, 4) ELSE R(c, s, 3)
    ELSE IF op = 233 THEN R([c EXCEPT !.PC = c.HL], s, 1)
    ELSE IF Taken(c, op)
         THEN R([c EXCEPT !.PC = safe_signed_add(c.PC, op1)], s, 3)
         ELSE R(c, s, 2)

ExecCall(c, s, op, op1, op2) ==
    IF op \in RstOps
    THEN LET r == CPU_call(c, s, op - 199) IN R(r.cpu, r.state, 4)
    ELSE IF Taken(c, op)
         THEN LET r == CPU_call(c, s, word(op2, op1)) IN R(r.cpu, r.state, 6)
         ELSE R(c, s, 3)

ExecRet(c, s, op, op1, op2) ==
    LET r == CPU_ret(c, s)
    IN  CASE op = 201 -> R(r.cpu, r.state, 4)
          [] op = 217 -> R([r.cpu EXCEPT !.IME = TRUE], r.state, 4)
          [] OTHER -> IF Taken(c, op) THEN R(r.cpu, r.state, 5) ELSE R(c, s, 2)

\* decode(op): the instruction's size in bytes, 0 when decode returns None
Size3Ops == {1, 17, 33, 49, 8, 234, 250, 194, 210, 195, 202, 218} \cup CallOps

Size2Ops == {16, 203, 6, 22, 38, 54, 14, 30, 46, 62, 224, 240, 248, 232,
             32, 48, 24, 40, 56} \cup AluImmOps

Size1Ops ==
    (MiscOps \ {16}) \cup LdRegOps \cup (Ld8Ops \ (Size2Ops \cup Size3Ops))
       \cup {249} \cup StackOps \cup AluRegOps \cup IncDecOps
       \cup (Alu16Ops \ {232}) \cup RotAOps \cup {233} \cup RstOps \cup RetOps

InstrSize(op) ==
    IF op \in Size3Ops THEN 3
    ELSE IF op \in Size2Ops THEN 2
    ELSE IF op \in Size1Ops THEN 1
    ELSE 0

\* the handler of decode(op)
Exec(c, s, op, op1, op2) ==
    IF op \in MiscOps THEN ExecMisc(c, s, op, op1, op2)
    ELSE IF op = 203 THEN handle_cb(c, s, op1)
    ELSE IF op \in LdRegOps THEN ExecLdReg(c, s, op, op1, op2)
    ELSE IF op \in Ld8Ops THEN ExecLd8(c, s, op, op1, op2)
    ELSE IF op \in Ld16Ops THEN ExecLd16(c, s, op, op1, op2)
    ELSE IF op \in StackOps THEN ExecStack(c, s, op, op1, op2)
    ELSE IF op \in AluRegOps \cup AluImmOps \cup IncDecOps
         THEN ExecAlu8(c, s, op, op1, op2)
    ELSE IF op \in Alu16Ops THEN ExecAlu16(c, s, op, op1, op2)
    ELSE IF op \in RotAOps THEN ExecRotA(c, s, op, op1, op2)
    ELSE IF op \in JumpOps THEN ExecJump(c, s, op, op1, op2)
    ELSE IF op \in RstOps \cup CallOps THEN ExecCall(c, s, op, op1, op2)
    ELSE ExecRet(c, s, op, op1, op2)

\* the fetch of CPU::step panics: the opcode or an operand is read from the
\* unmapped part of OAM, or pc + 1 / pc + 2 overflows in a debug build
FetchFaults(s, pc, size) ==
    \/ MMU_read_faults(s.mmu, pc)
    \/ size >= 2 /\ (AddrOverflows(pc, 1) \/ MMU_read_faults(s.mmu, AddrPlus(s, pc, 1)))
    \/ size >= 3 /\ (AddrOverflows(pc, 2) \/ MMU_read_faults(s.mmu, AddrPlus(s, pc, 2)))

\* a fetch that steps over the opcode only
AdvancePC_OpcodeOnly(c, size) == [c EXCEPT !.PC = safe_w_add(c.PC, 1)]

\* self.PC.set(safe_w_add(self.PC.val(), size as u16))
AdvancePC(c, size) == [c EXCEPT !.PC = safe_w_add(c.PC, size)]

CPU_step(c, s) ==
    IF c.HALT \/ c.STOP THEN R(c, s, 1)
    ELSE LET pc == c.PC
             op == safe_read(s, pc)
             size == InstrSize(op)
             op1 == IF size >= 2 THEN safe_read(s, AddrPlus(s, pc, 1)) ELSE 0
             op2 == IF size >= 3 THEN safe_read(s, AddrPlus(s, pc, 2)) ELSE 0
         IN  IF MMU_read_faults(s.mmu, pc) \/ size = 0 \/ FetchFaults(s, pc, size)
             THEN R(c, Faulted(s), 0)
             ELSE Exec(AdvancePC(c, size), s, op, op1, op2)

(***************************************************************************)
(* Clocked devices.  A device method yields the device and the MMU.  The   *)
(* PPU's sprite tables and pixel output and the APU's channels are not     *)
(* part of the modelled state.                                             *)
(***************************************************************************)
DM(dev, m) == [dev |-> dev, mmu |-> m]

\* a u8 sum: it panics in a debug build and wraps in a release build
U8Overflows(x, n) == x + n > 255 /\ build = "debug"

MFault(m) == [m EXCEPT !.fault = TRUE]

SCREEN_WIDTH == 160
SCREEN_HEIGHT == 144
VBLANK_HEIGHT == 10
OAM_SEARCH_CYCLES == 20
LCD_TRANSFER_CYCLES == 43
HBLANK_CYCLES == 51
SCANLINE_CYCLES == OAM_SEARCH_CYCLES + LCD_TRANSFER_CYCLES + HBLANK_CYCLES
FRAME_CYCLES == SCANLINE_CYCLES * (VBLANK_HEIGHT + SCREEN_HEIGHT)

GPU_next_time(g, m) ==
    LET cycles_of(mode) ==
            CASE mode = OAM_SEARCH -> OAM_SEARCH_CYCLES
              [] mode = LCD_TRANSFER -> 1
              [] mode = HBLANK -> HBLANK_CYCLES
              [] mode = VBLANK -> SCANLINE_CYCLES
    IN  cycles_of(GPU_MODE(m))

GPU_vblank_int(m) ==
    IF GPU_LCD_DISPLAY_ENABLE(m) THEN MMU_set_bit(m, IF_REG, 0, TRUE) ELSE m

GPU_stat_int(m) ==
    IF GPU_LCD_DISPLAY_ENABLE(m) THEN MMU_set_bit(m, IF_REG, 1, TRUE) ELSE m

\* vblank_stat_int without its test of the STAT selection bit
GPU_vblank_stat_int_Unselected(m) == GPU_stat_int(m)

GPU_vblank_stat_int(m) == IF MMU_read_bit(m, STAT, 4) THEN GPU_stat_int(m) ELSE m

GPU_hblank_stat_int(m) == IF MMU_read_bit(m, STAT, 3) THEN GPU_stat_int(m) ELSE m

GPU_oam_stat_int(m) == IF MMU_read_bit(m, STAT, 5) THEN GPU_stat_int(m) ELSE m

\* lyc_stat_int without its test of the coincidence flag
GPU_lyc_stat_int_AnyLine(m) ==
    IF MMU_read_bit(m, STAT, 6) THEN GPU_stat_int(m) ELSE m

GPU_lyc_stat_int(m) ==
    IF MMU_read_bit(m, STAT, 6) /\ MMU_read_bit(m, STAT, 2) THEN GPU_stat_int(m) ELSE m

\* draw_dot at column lx reaches draw_window and finds the dot inside the window
GPU_dot_in_window(g, m, lx) ==
    /\ GPU_LCD_DISPLAY_ENABLE(m)
    /\ MMU_read_bit(m, LCDC, 0)
    /\ MMU_read_bit(m, LCDC, 5)
    /\ g.ly >= MMU_read(m, WY)
    /\ lx + 7 >= MMU_read(m, WX)

\* the loop of read_oam: entry i of the OAM as a Sprite
OamSprite(oam, i) ==
    LET flagged(flg) ==
            [y |-> Get(oam, 4 * i), x |-> Get(oam, 4 * i + 1),
             tile_idx |-> Get(oam, 4 * i + 2), priority |-> Bit(flg, 7),
             y_flip |-> Bit(flg, 6), x_flip |-> Bit(flg, 5), palette |-> Bit(flg, 4)]
    IN  flagged(Get(oam, 4 * i + 3))

\* read_oam with a sort that puts the later of two sprites of equal x first
read_oam_TiesReversed(m) ==
    LET x(i) == Get(m.oam, 4 * i + 1)
        place(i) ==
            Cardinality({j \in 0..(SPRITE_COUNT - 1) :
                            x(j) < x(i) \/ (x(j) = x(i) /\ j > i)})
        set(i) == {k \in DOMAIN m.oam : k \div 4 = i} # {}
        placed(entries) ==
            [k \in {place(i) : i \in entries} |->
                OamSprite(m.oam, CHOOSE i \in entries : place(i) = k)]
    IN  placed({i \in 0..(SPRITE_COUNT - 1) : set(i)})

\* read_oam: the 40 OAM entries sorted by x.  sort_by is a stable sort, so
\* entry i ends up behind the entries of smaller x and the earlier entries
\* of equal x
read_oam(m) ==
    LET x(i) == Get(m.oam, 4 * i + 1)
        place(i) ==
            Cardinality({j \in 0..(SPRITE_COUNT - 1) :
                            x(j) < x(i) \/ (x(j) = x(i) /\ j < i)})
        set(i) == {k \in DOMAIN m.oam : k \div 4 = i} # {}
        placed(entries) ==
            [k \in {place(i) : i \in entries} |->
                OamSprite(m.oam, CHOOSE i \in entries : place(i) = k)]
    IN  placed({i \in 0..(SPRITE_COUNT - 1) : set(i)})

\* the first loop of oam_scanline from index i on: the slots filled so far
\* and whether sprite.y + h has overflowed (a panic in a debug build)
RECURSIVE oam_scan(_, _, _, _, _)
oam_scan(sprites, y, h, i, line) ==
    IF i = SPRITE_COUNT \/ Len(line) = SCANLINE_SPRITE_COUNT
    THEN [line |-> line, fault |-> FALSE]
    ELSE LET on_line(top) ==
                 IF y < top THEN [hit |-> FALSE, fault |-> FALSE]
                 ELSE IF U8Overflows(top, h) THEN [hit |-> FALSE, fault |-> TRUE]
                 ELSE [hit |-> y < (top + h) % 256, fault |-> FALSE]
             next(r) ==
                 IF r.fault THEN [line |-> line, fault |-> TRUE]
                 ELSE oam_scan(sprites, y, h, i + 1,
                               IF r.hit THEN Append(line, i) ELSE line)
         IN  next(on_line(GetSprite(sprites, i).y))

\* GPU::oam_scanline: sprites_line, the unused slots set to 0xFF
GPU_oam_scanline(g, m) ==
    LET filled(r) ==
            DM([g EXCEPT !.sprites_line =
                    [j \in 1..SCANLINE_SPRITE_COUNT |->
                        IF j <= Len(r.line) THEN r.line[j] ELSE 255]],
               IF r.fault THEN MFault(m) ELSE m)
    IN  IF U8Overflows(g.ly, 16) THEN DM(g, MFault(m))
        ELSE filled(oam_scan(g.sprites, (g.ly + 16) % 256,
                             IF MMU_read_bit(m, LCDC, 2) THEN 16 ELSE 8, 0, <<>>))

\* the OAM_SEARCH arm
GPU_step_oam_search(g, m) ==
    LET searched(r) ==
            IF r.mmu.fault THEN DM(g, r.mmu)
            ELSE DM(r.dev, GPU_set_MODE(r.mmu, LCD_TRANSFER))
    IN  searched(GPU_oam_scanline([g EXCEPT !.sprites = read_oam(m)], m))

\* the LCD_TRANSFER arm: four dots
GPU_step_lcd_transfer(g, m) ==
    LET win == \E i \in 0..3 : g.lx + i <= 255 /\ GPU_dot_in_window(g, m, g.lx + i)
        g1 == [g EXCEPT !.lx = (g.lx + 4) % 256, !.win_rendered = @ \/ win]
    IN  IF U8Overflows(g.lx, 4) THEN DM(g, MFault(m))
        ELSE IF g1.lx = SCREEN_WIDTH
             THEN DM(g1, GPU_hblank_stat_int(GPU_set_MODE(m, HBLANK)))
             ELSE DM(g1, m)

\* the HBLANK arm
GPU_step_hblank(g, m) ==
    LET g1 == [g EXCEPT !.lx = 0, !.ly = (g.ly + 1) % 256,
                        !.win_rendered = FALSE,
                        !.wy = IF g.win_rendered THEN (g.wy + 1) % 256 ELSE g.wy]
        next_mode(m1) ==
            IF g1.ly = SCREEN_HEIGHT
            THEN DM(g1, GPU_vblank_stat_int(GPU_vblank_int(GPU_set_MODE(m1, VBLANK))))
            ELSE DM(g1, GPU_oam_stat_int(GPU_set_MODE(m1, OAM_SEARCH)))
    IN  IF U8Overflows(g.ly, 1) \/ (g.win_rendered /\ U8Overflows(g.wy, 1))
        THEN DM(g, MFault(m))
        ELSE next_mode(GPU_lyc_stat_int(GPU_update_ly(g1, m)))

\* the VBLANK arm
GPU_step_vblank(g, m) ==
    LET ly == IF g.ly = SCREEN_HEIGHT + VBLANK_HEIGHT THEN 0 ELSE (g.ly + 1) % 256
        g1 == [g EXCEPT !.lx = 0, !.ly = ly]
        next_mode(m1) ==
            IF ly = 0
            THEN DM([g1 EXCEPT !.wy = 0], GPU_oam_stat_int(GPU_set_MODE(m1, OAM_SEARCH)))
            ELSE DM(g1, m1)
    IN  IF g.ly # SCREEN_HEIGHT + VBLANK_HEIGHT /\ U8Overflows(g.ly, 1)
        THEN DM(g, MFault(m))
        ELSE next_mode(GPU_lyc_stat_int(GPU_update_ly(g1, m)))

GPU_step(g, m) ==
    LET arm(m0, mode) ==
            CASE mode = OAM_SEARCH -> GPU_step_oam_search(g, m0)
              [] mode = LCD_TRANSFER -> GPU_step_lcd_transfer(g, m0)
              [] mode = HBLANK -> GPU_step_hblank(g, m0)
              [] mode = VBLANK -> GPU_step_vblank(g, m0)
        updated(m0) == arm(m0, GPU_MODE(m0))
    IN  updated(GPU_update_ly(g, m))

STEPS_4096HZ == 256
STEPS_16384HZ == 64
STEPS_65536HZ == 16
STEPS_262144HZ == 4

Timer_next_time(t, m) == 1

\* Timer::MODE without its match on the TAC bits
Timer_MODE_Fixed(m) == STEPS_16384HZ

\* Timer::MODE as the number of machine cycles per TIMA tick
Timer_MODE(m) ==
    LET steps(mode) ==
            CASE mode = 3 -> STEPS_16384HZ
              [] mode = 2 -> STEPS_65536HZ
              [] mode = 1 -> STEPS_262144HZ
              [] mode = 0 -> STEPS_4096HZ
    IN  steps(MMU_read(m, TAC) % 4)

\* timer_int with the wrong request bit
Timer_timer_int_Vblank(m) == MMU_set_bit(m, IF_REG, 0, TRUE)

Timer_timer_int(m) == MMU_set_bit(m, IF_REG, 2, TRUE)

Timer_step(t, m) ==
    LET tick == t.div_cycle % STEPS_16384HZ = 0
        bump(div) == MMU_write(m, DIV, IF div = 255 THEN 0 ELSE div + 1)
        t1 == [t EXCEPT !.div_cycle = (IF tick THEN 0 ELSE @) + 1]
        count_up(m1, count) ==
            IF count = 255
            THEN MMU_write(Timer_timer_int(m1), TIMA, MMU_read(m1, TMA))
            ELSE MMU_write(m1, TIMA, count + 1)
        check_ticks(m1, due) ==
            DM([t1 EXCEPT !.tima_cycle = (IF due THEN 0 ELSE @) + 1],
               IF due THEN count_up(m1, MMU_read(m1, TIMA)) ELSE m1)
        enabled(m1) ==
            IF ~MMU_read_bit(m1, TAC, 2) THEN DM(t1, m1)
            ELSE check_ticks(m1, t.tima_cycle % Timer_MODE(m1) = 0)
    IN  enabled(IF tick THEN bump(MMU_read(m, DIV)) ELSE m)

SEQUENCER_UPDATE_RATE == 2048
SEQUENCER_STEP_COUNT == 8

DUTY_CYCLE_STEPS == 8
SAMPLE_APPEND_RATE == 24

SquareWaveChannel_reset(ch, m) ==
    LET from(regs) ==
            [ch EXCEPT !.frequency = regs.FREQ, !.volume = regs.INITIAL_VOLUME,
                       !.length = regs.SOUND_LENGTH, !.timer = 2048 - regs.FREQ,
                       !.duty_cycle = 0, !.sweep_timer = regs.SWEEP_TIME,
                       !.envelope_count = regs.ENVELOPE_SHIFTS]
    IN  from(Channel1Regs(m))

\* SquareWaveChannel::tick: a pending trigger restarts and enables the
\* channel; an enabled channel advances its timer, duty step and sample
\* counter
SquareWaveChannel_tick(ch, m) ==
    LET run(c, m1) ==
            IF ~MMU_read_bit(m1, NR_52, 0) THEN DM(c, m1)
            ELSE LET timed(t) ==
                         [c EXCEPT
                            !.timer = IF t = 0 THEN 2048 - c.frequency ELSE t,
                            !.duty_cycle = IF t = 0 THEN (@ + 1) % DUTY_CYCLE_STEPS ELSE @,
                            !.sample_counter =
                                IF @ + 1 = SAMPLE_APPEND_RATE THEN 0 ELSE @ + 1]
                 IN  DM(timed(IF c.timer > 0 THEN c.timer - 1 ELSE 0), m1)
    IN  IF MMU_read_bit(m, NR_14, 7)
        THEN run(SquareWaveChannel_reset(ch, m),
                 MMU_set_bit(MMU_set_bit(m, NR_14, 7, FALSE), NR_52, 0, TRUE))
        ELSE run(ch, m)

\* SquareWaveChannel::length
SquareWaveChannel_length(ch, m) ==
    LET counted(len) ==
            DM([ch EXCEPT !.length = len],
               IF len = 0 /\ MMU_read_bit(m, NR_14, 6)
               THEN MMU_set_bit(m, NR_52, 0, FALSE) ELSE m)
    IN  IF ~MMU_read_bit(m, NR_52, 0) THEN DM(ch, m)
        ELSE counted(IF ch.length > 0 THEN ch.length - 1 ELSE 0)

\* SquareWaveChannel::sweep.  sweep_timer is a u16: sweep_timer -= 1 at 0
\* panics in a debug build and wraps to 0xFFFF in a release build
SquareWaveChannel_sweep(ch, m) ==
    LET swept(regs, delta) ==
            IF regs.SWEEP_DIRECTION
            THEN DM([ch EXCEPT !.frequency = IF @ >= delta THEN @ - delta ELSE @,
                               !.sweep_timer = regs.SWEEP_TIME], m)
            ELSE IF ch.frequency + delta > 2047
            THEN DM([ch EXCEPT !.sweep_timer = regs.SWEEP_TIME],
                    MMU_set_bit(m, NR_52, 0, FALSE))
            ELSE DM([ch EXCEPT !.frequency = @ + delta,
                               !.sweep_timer = regs.SWEEP_TIME], m)
        clocked(regs) ==
            IF ~regs.CHANNEL_ENABLED THEN DM(ch, m)
            ELSE IF ch.sweep_timer = 0
            THEN IF build = "debug" THEN DM(ch, MFault(m))
                 ELSE DM([ch EXCEPT !.sweep_timer = 65535], m)
            ELSE IF ch.sweep_timer - 1 # 0
            THEN DM([ch EXCEPT !.sweep_timer = @ - 1], m)
            ELSE swept(regs, ch.frequency \div (2 ^ regs.SWEEP_SHIFTS))
    IN  clocked(Channel1Regs(m))

\* SquareWaveChannel::envelope
SquareWaveChannel_envelope(ch, m) ==
    IF ~MMU_read_bit(m, NR_52, 0) \/ ch.envelope_count = 0 THEN DM(ch, m)
    ELSE DM([ch EXCEPT
               !.volume = IF ~MMU_read_bit(m, NR_22, 3)
                          THEN (IF @ < 15 THEN @ + 1 ELSE @)
                          ELSE (IF @ > 0 THEN @ - 1 ELSE @),
               !.envelope_count = @ - 1], m)

APU_next_time(a, m) == 1

\* the clocks the frame sequencer issues at a step that clocks envelopes
\* at step 0 as well
APU_clocks_EnvelopeTwice(step) ==
    (IF step \in {0, 2, 4, 6} THEN {"length"} ELSE {})
        \cup (IF step \in {2, 6} THEN {"sweep"} ELSE {})
        \cup (IF step \in {0, 7} THEN {"envelope"} ELSE {})

\* the three matches on sequencer_step in APU::step
APU_clocks(step) ==
    (IF step \in {0, 2, 4, 6} THEN {"length"} ELSE {})
        \cup (IF step \in {2, 6} THEN {"sweep"} ELSE {})
        \cup (IF step = 7 THEN {"envelope"} ELSE {})

\* APU::step: channel 1 ticks, then every SEQUENCER_UPDATE_RATE steps the
\* frame sequencer clocks it and advances.  Channels 2..4 keep their own
\* state and are left out
APU_step(a, m) ==
    LET enveloped(clocks, r) ==
            DM([sequencer_cycle |-> 0,
                sequencer_step |-> (a.sequencer_step + 1) % SEQUENCER_STEP_COUNT,
                chan1 |-> r.dev], r.mmu)
        swept(clocks, r) ==
            enveloped(clocks, IF "envelope" \in clocks /\ ~r.mmu.fault
                              THEN SquareWaveChannel_envelope(r.dev, r.mmu) ELSE r)
        counted(clocks, r) ==
            swept(clocks, IF "sweep" \in clocks
                          THEN SquareWaveChannel_sweep(r.dev, r.mmu) ELSE r)
        ticked(r) ==
            IF a.sequencer_cycle + 1 = SEQUENCER_UPDATE_RATE
            THEN counted(APU_clocks(a.sequencer_step),
                         IF "length" \in APU_clocks(a.sequencer_step)
                         THEN SquareWaveChannel_length(r.dev, r.mmu) ELSE r)
            ELSE DM([a EXCEPT !.sequencer_cycle = @ + 1, !.chan1 = r.dev], r.mmu)
    IN  ticked(SquareWaveChannel_tick(a.chan1, m))

TRANSFER_SIZE == 140

DMA_step(d, m) ==
    LET addr == MMU_read(m, DMA_REG) * 256
        val(i) == IF i < TRANSFER_SIZE THEN MMU_read(m, addr + i) ELSE Get(m.oam, i)
    IN  IF ~d.active THEN DM(d, m)
        ELSE DM([active |-> FALSE],
                [m EXCEPT !.oam = [i \in {k \in 0..(OAM_SIZE - 1) : val(k) # 0} |-> val(i)]])

B2N(b) == IF b THEN 1 ELSE 0

\* the low nibble of P1 with the four lines of a column (1 = released)
Joypad_lines(m, b0, b1, b2, b3) ==
    LET lines(p) == (p - (p % 16)) + B2N(~b0) + 2 * B2N(~b1) + 4 * B2N(~b2)
                       + 8 * B2N(~b3)
    IN  MMU_write(m, P1, lines(MMU_read(m, P1)))

Joypad_step(j, m) ==
    LET request(m1) ==
            IF j.interrupt
            THEN DM([j EXCEPT !.interrupt = FALSE], MMU_set_bit(m1, IF_REG, 4, TRUE))
            ELSE DM(j, m1)
    IN  request(IF ~MMU_read_bit(m, P1, 5)
                THEN Joypad_lines(m, j.a, j.b, j.select, j.start)
                ELSE IF ~MMU_read_bit(m, P1, 4)
                     THEN Joypad_lines(m, j.right, j.left, j.up, j.down)
                     ELSE MMU_write(m, P1, 255))

\* a key handler that sets the latch whenever the key is down
Joypad_set_Level(j, button, val) ==
    [j EXCEPT ![button] = val, !.interrupt = @ \/ val]

\* Joypad::down .. Joypad::up (val): a press (released -> pressed) raises
\* the interrupt latch
Joypad_set(j, button, val) ==
    [j EXCEPT ![button] = val, !.interrupt = @ \/ (val /\ ~j[button])]

\* Joypad::a(val): a press (released -> pressed) raises the interrupt latch
Joypad_a(j, val) ==
    [j EXCEPT !.a = val, !.interrupt = @ \/ (val /\ ~j.a)]

(***************************************************************************)
(* Runtime: the scheduler (src/src/state.rs).  A clocked device is named   *)
(* by the field of State that holds it.                                    *)
(***************************************************************************)
Clocked_next_time(kind, dev, m) ==
    CASE kind = "gpu" -> GPU_next_time(dev, m)
      [] kind = "timer" -> Timer_next_time(dev, m)
      [] kind = "apu" -> APU_next_time(dev, m)

Clocked_step(kind, dev, m) ==
    CASE kind = "gpu" -> GPU_step(dev, m)
      [] kind = "timer" -> Timer_step(dev, m)
      [] kind = "apu" -> APU_step(dev, m)

\* a catch-up loop that stops one cycle short (dev_new + next < cpu_clk)
RECURSIVE catchup_Short(_, _, _, _, _)
catchup_Short(kind, m, dev, cpu_clk, dev_clk) ==
    LET loop(next) ==
            IF m.fault \/ dev_clk + next >= cpu_clk
            THEN [mmu |-> m, dev |-> dev, clk |-> dev_clk]
            ELSE LET stepped(r) ==
                         catchup_Short(kind, r.mmu, r.dev, cpu_clk, dev_clk + next)
                 IN  stepped(Clocked_step(kind, dev, m))
    IN  loop(Clocked_next_time(kind, dev, m))

RECURSIVE catchup(_, _, _, _, _)
catchup(kind, m, dev, cpu_clk, dev_clk) ==
    LET loop(next) ==
            IF m.fault \/ dev_clk + next > cpu_clk
            THEN [mmu |-> m, dev |-> dev, clk |-> dev_clk]
            ELSE LET stepped(r) ==
                         catchup(kind, r.mmu, r.dev, cpu_clk, dev_clk + next)
                 IN  stepped(Clocked_step(kind, dev, m))
    IN  loop(Clocked_next_time(kind, dev, m))

(***************************************************************************)
(* Harness shared by the specifications: `call` records the operation that *)
(* produced the current state, its return value and the state it started   *)
(* from.                                                                   *)
(***************************************************************************)
NoCycles == [cpu |-> 0, gpu |-> 0, apu |-> 0, timer |-> 0]

Snapshot == [cpu |-> cpu, state |-> state, cycles |-> cycles]

Called(op, ret) == [op |-> op, ret |-> ret, pre |-> Snapshot]

NotCalled ==
    [op |-> "new", ret |-> 0,
     pre |-> [cpu |-> CPU_new, state |-> State_new(RomOnly_new(Empty), Empty),
              cycles |-> NoCycles]]

Builds == {"debug", "release"}

\* a machine whose boot ROM has been switched off (MMU::disable_bootrom)
\* when booted is TRUE
Machine(booted) ==
    LET s == State_new(RomOnly_new(Empty), Empty)
    IN  IF booted THEN [s EXCEPT !.mmu = MMU_write(@, BOOT, 1)] ELSE s

(***************************************************************************)
(* SpecInt: CPU::interrupts() called on every combination of the latches,  *)
(* IE, IF, stack pointer and program counter below.                        *)
(***************************************************************************)
\* IE and IF values: each of the five sources alone or mixed, and the
\* unused upper three bits
IntMasks == {0, 1, 2, 16, 10, 31, 224, 255}

\* stacks in high RAM, in work RAM, on the IF register (0xFF11, 0xFF10 push
\* onto 0xFF0F) and wrapping around the address space
IntStacks == {65534, 53248, 65297, 65296, 1}

IntPCs == {336, 4660}

\* HALT and STOP are never both set: CPU::step executes nothing while
\* either is
IntLatches == {<<FALSE, FALSE>>, <<TRUE, FALSE>>, <<FALSE, TRUE>>}

IntInit ==
    /\ build \in Builds
    /\ \E ime \in BOOLEAN, latch \in IntLatches, sp \in IntStacks, pc \in IntPCs :
          cpu = [CPU_new EXCEPT !.IME = ime, !.HALT = latch[1], !.STOP = latch[2],
                                !.SP = sp, !.PC = pc]
    /\ \E booted \in BOOLEAN, in_e \in IntMasks, in_f \in IntMasks :
          state = safe_write(safe_write(Machine(booted), IE, in_e), IF_REG, in_f)
    /\ cycles = NoCycles
    /\ call = NotCalled

IntInterrupts ==
    /\ ~state.mmu.fault
    /\ \E r \in {CPU_interrupts(cpu, state)} :
          /\ cpu' = r.cpu
          /\ state' = r.state
          /\ call' = Called("interrupts", r.ret)
    /\ UNCHANGED <<cycles, build>>

IntNext == IntInterrupts

SpecInt == IntInit /\ [][IntNext]_vars

\* the call of interrupts() that produced the current state returned
IntReturned == call.op = "interrupts" /\ ~state.mmu.fault

PreIE == safe_read(call.pre.state, IE)

PreIF == safe_read(call.pre.state, IF_REG)

\* the sources 0..4 both requested and enabled before the call
Pending == {n \in 0..4 : Bit(PreIF, n) /\ Bit(PreIE, n)}

Lowest == CHOOSE n \in Pending : \A k \in Pending : n <= k

\* the two bytes of a push ending at sp lie in work RAM or high RAM
StackInRam(sp) ==
    \/ sp >= RAM_BASE_ADDR /\ sp + 1 < RAM_ECHO_ADDR
    \/ sp >= HRAM_ADDR /\ sp + 1 < IE

\* the push that ends at sp stores a byte of PC on the IF register
PushOnIF(sp) == sp = IF_REG \/ sp + 1 = IF_REG

\* what C1 says of a dispatch, apart from the IF register
DispatchedTo(n) ==
    /\ ~cpu.IME
    /\ ~cpu.HALT
    /\ cpu.SP = safe_w_sub(call.pre.cpu.SP, 2)
    /\ StackInRam(cpu.SP) => read_word(state, cpu.SP) = call.pre.cpu.PC
    /\ cpu.PC = 64 + 8 * n
    /\ call.ret = 5

NothingChanged ==
    /\ cpu = call.pre.cpu
    /\ state = call.pre.state
    /\ call.ret = 0

\* C1 as stated: with IME set and STOP clear, interrupts() services exactly
\* the lowest pending source n of 0..4: IF loses bit n and nothing else, IME
\* and HALT are cleared, PC is pushed (SP - 2), PC = 0x40 + 8n, 5 cycles;
\* with none pending (bits 5..7 do not count) nothing changes and 0 cycles
C1_Original ==
    (IntReturned /\ call.pre.cpu.IME /\ ~call.pre.cpu.STOP) =>
        IF Pending # {}
        THEN /\ DispatchedTo(Lowest)
             /\ safe_read(state, IF_REG) = PreIF - 2^Lowest
        ELSE NothingChanged

\* C1 amended: the same, where IF is required to be PreIF without bit n only
\* when neither pushed byte is stored on the IF register 0xFF0F
C1_Dispatch ==
    (IntReturned /\ call.pre.cpu.IME /\ ~call.pre.cpu.STOP) =>
        IF Pending # {}
        THEN /\ DispatchedTo(Lowest)
             /\ ~PushOnIF(cpu.SP) => safe_read(state, IF_REG) = PreIF - 2^Lowest
        ELSE NothingChanged

\* a dispatch of a source other than the lowest-numbered bit 0, with a
\* higher source and an unused bit pending as well, from HALT
C1_Witness ==
    /\ IntReturned
    /\ call.pre.cpu.IME /\ call.pre.cpu.HALT
    /\ PreIF = 255 /\ PreIE = 10
    /\ cpu.PC = 72
    /\ safe_read(state, IF_REG) = 253
    /\ read_word(state, cpu.SP) = 4660

\* C2 as stated: with STOP set, interrupts() clears STOP exactly when the
\* joypad interrupt (bit 4) is enabled in IE and requested in IF
C2_Original ==
    (IntReturned /\ call.pre.cpu.STOP) =>
        (~cpu.STOP <=> (Bit(PreIE, 4) /\ Bit(PreIF, 4)))

\* C3: with HALT set and IME clear, a pending enabled source in 0..4 makes
\* interrupts() clear HALT and nothing else: PC, SP, IF, IME and all of
\* memory (the stack included) are as before
C3_HaltWake ==
    (IntReturned /\ call.pre.cpu.HALT /\ ~call.pre.cpu.IME /\ Pending # {}) =>
        /\ ~cpu.HALT
        /\ cpu = [call.pre.cpu EXCEPT !.HALT = FALSE]
        /\ state = call.pre.state

C3_Witness ==
    /\ IntReturned
    /\ call.pre.cpu.HALT /\ ~call.pre.cpu.IME
    /\ Pending = {1, 3}
    /\ ~cpu.HALT
    /\ cpu.PC = call.pre.cpu.PC

(***************************************************************************)
(* SpecCpu: CPU::step() on every opcode, with the operands, flags and      *)
(* program counters below; the instruction is executed and, as long as     *)
(* the instructions executed are NOPs, so is the one that follows.         *)
(***************************************************************************)
\* operand bytes <<op1, op2>>: zero, a forward and a backward displacement,
\* addresses in work RAM and in ROM
CpuOperands == {<<0, 0>>, <<5, 193>>, <<254, 255>>, <<134, 0>>}

\* the instruction lies in ROM, in work RAM, or wraps around 0xFFFF
CpuPCs == {0, 49152, 65534}

\* a booted machine that holds `bytes` at pc, pc + 1, ...: addresses below
\* 0x8000 are part of the cartridge image, the others are written
RECURSIVE Poke(_, _, _)
Poke(s, pc, bytes) ==
    IF bytes = <<>> THEN s
    ELSE Poke(IF pc < VRAM_ADDR THEN s ELSE safe_write(s, pc, Head(bytes)),
              (pc + 1) % 65536, Tail(bytes))

RomImage(pc, bytes) ==
    LET at(i) == (pc + i - 1) % 65536
        idx == {i \in 1..Len(bytes) : at(i) < VRAM_ADDR /\ bytes[i] # 0}
    IN  [a \in {at(i) : i \in idx} |->
            bytes[CHOOSE i \in idx : at(i) = a]]

Loaded(pc, bytes) ==
    LET s == State_new(RomOnly_new(RomImage(pc, bytes)), Empty)
    IN  Poke([s EXCEPT !.mmu = MMU_write(@, BOOT, 1)], pc, bytes)

\* the run of NOPs that ends with the call: its length, and PC and the cycle
\* counter where it began
NoRun == [nops |-> 0, pc |-> 0, cycles |-> 0]

CpuInit ==
    /\ build \in Builds
    /\ \E op \in Byte, ops \in CpuOperands, pc \in CpuPCs, z \in BOOLEAN, cy \in BOOLEAN :
          /\ cpu = [CPU_new EXCEPT !.PC = pc, !.Z = z, !.C = cy]
          /\ state = Loaded(pc, <<op, ops[1], ops[2]>>)
    /\ cycles = NoCycles
    /\ call = [NotCalled EXCEPT !.pre.cpu = cpu, !.pre.state = state] @@ [run |-> NoRun]

CpuStep ==
    /\ ~state.mmu.fault
    /\ call.op = "new" \/ (call.run.nops > 0 /\ call.run.nops < MaxCpuSteps)
    /\ \E r \in {CPU_step(cpu, state)} :
          \E nop \in {~cpu.HALT /\ ~cpu.STOP /\ safe_read(state, cpu.PC) = 0} :
             /\ cpu' = r.cpu
             /\ state' = r.state
             /\ cycles' = [cycles EXCEPT !.cpu = @ + r.ret]
             /\ call' = Called("step", r.ret) @@
                   [run |-> IF ~nop THEN NoRun
                            ELSE IF call.run.nops = 0
                                 THEN [nops |-> 1, pc |-> cpu.PC, cycles |-> cycles.cpu]
                                 ELSE [call.run EXCEPT !.nops = @ + 1]]
    /\ UNCHANGED build

CpuNext == CpuStep

SpecCpu == CpuInit /\ [][CpuNext]_vars

\* CPU::step() returned after executing an instruction (neither latch set)
Executed ==
    /\ call.op = "step"
    /\ ~state.mmu.fault
    /\ ~call.pre.cpu.HALT /\ ~call.pre.cpu.STOP

\* the opcode that was executed
ExecutedOp == safe_read(call.pre.state, call.pre.cpu.PC)

\* C5: an executed instruction has a length of 1, 2 or 3 bytes, and unless
\* it is a taken jump, call, return or RST, PC afterwards is PC before plus
\* that length modulo 2^16 (so also for a conditional whose condition is
\* false); a run of k NOPs, k = 256 included, advances PC by k and takes k
\* machine cycles
C5_PCAdvance ==
    Executed =>
        /\ InstrSize(ExecutedOp) \in {1, 2, 3}
        /\ ~Taken(call.pre.cpu, ExecutedOp) =>
              cpu.PC = (call.pre.cpu.PC + InstrSize(ExecutedOp)) % 65536
        /\ call.run.nops > 0 =>
              /\ cpu.PC = (call.run.pc + call.run.nops) % 65536
              /\ cycles.cpu = call.run.cycles + call.run.nops

\* 256 NOPs in a row have been executed from ROM address 0
C5_Witness ==
    /\ Executed
    /\ call.run.nops = 256
    /\ call.run.pc = 0
    /\ cpu.PC = 256
    /\ cycles.cpu = 256

(***************************************************************************)
(* SpecGpu: the PPU clocked on its own, one iteration of the catch-up loop *)
(* of Runtime::catchup per action (the device counter advances by          *)
(* next_time(), then step() runs), for a little more than one frame.       *)
(***************************************************************************)
\* LCDC after GPU::new alone, with background and window switched on, and
\* with the display switched off
GpuLcdcs == {128, 161, 0}

\* the STAT interrupt selection bits 6..3: none or all
GpuStatBits == {{}, {3, 4, 5, 6}}

GpuLycs == {0, 154}

RECURSIVE SetBits(_, _, _)
SetBits(m, addr, bits) ==
    IF bits = {} THEN m
    ELSE LET b == CHOOSE x \in bits : TRUE
         IN  SetBits(MMU_set_bit(m, addr, b, TRUE), addr, bits \ {b})

NoScan ==
    [steps |-> 0, line_start |-> 0, line_steps |-> 0, vblank_start |-> 0,
     frame_start |-> 0, line_len |-> 0, line_cnt |-> 0, vblank_len |-> 0,
     frame_len |-> 0]

GpuInit ==
    /\ build \in Builds
    /\ cpu = CPU_new
    /\ \E lcdc \in GpuLcdcs, bits \in GpuStatBits, lyc \in GpuLycs :
          LET s0 == Machine(TRUE)
              s1 == safe_write(s0, LCDC, lcdc)
              s2 == [s1 EXCEPT !.mmu = SetBits(@, STAT, bits)]
          IN  state = safe_write(s2, LYC, lyc)
    /\ cycles = NoCycles
    /\ call = [NotCalled EXCEPT !.pre.cpu = cpu, !.pre.state = state] @@ [run |-> NoScan]

GpuStep ==
    /\ ~state.mmu.fault
    /\ call.run.steps < MaxGpuSteps
    /\ \E next \in {GPU_next_time(state.gpu, state.mmu)},
          r \in {GPU_step(state.gpu, state.mmu)},
          before \in {GPU_MODE(state.mmu)} :
       \E now \in {cycles.gpu + next}, after \in {GPU_MODE(r.mmu)}, run \in {call.run} :
           /\ state' = [state EXCEPT !.gpu = r.dev, !.mmu = r.mmu]
           /\ cycles' = [cycles EXCEPT !.gpu = now]
           /\ call' = Called("gpu_step", next) @@
                 [run |->
                    [steps |-> run.steps + 1,
                     line_start |-> IF after = OAM_SEARCH /\ before # OAM_SEARCH
                                    THEN now ELSE run.line_start,
                     line_steps |-> IF after = OAM_SEARCH /\ before # OAM_SEARCH
                                    THEN 0 ELSE run.line_steps + 1,
                     vblank_start |-> IF after = VBLANK /\ before # VBLANK
                                      THEN now ELSE run.vblank_start,
                     frame_start |-> IF r.dev.ly = 0 /\ state.gpu.ly # 0
                                     THEN now ELSE run.frame_start,
                     line_len |-> IF before = HBLANK THEN now - run.line_start ELSE 0,
                     line_cnt |-> IF before = HBLANK THEN run.line_steps + 1 ELSE 0,
                     vblank_len |-> IF before = VBLANK /\ after # VBLANK
                                    THEN now - run.vblank_start ELSE 0,
                     frame_len |-> IF r.dev.ly = 0 /\ state.gpu.ly # 0
                                   THEN now - run.frame_start ELSE 0]]
    /\ UNCHANGED <<cpu, build>>

GpuNext == GpuStep

SpecGpu == GpuInit /\ [][GpuNext]_vars

\* GPU::step() returned
GpuStepped == call.op = "gpu_step" /\ ~state.mmu.fault

PreMode == GPU_MODE(call.pre.state.mmu)

\* C8: summing next_time() over the PPU steps, a visible scanline (entering
\* OAM_SEARCH to leaving HBLANK) lasts 114 cycles, VBLANK lasts 10 * 114
\* cycles, a frame (LY = 0 back to LY = 0) lasts 17556 cycles, and at every
\* step boundary LY = floor(cycles since the start of the frame / 114)
C8_Original ==
    GpuStepped =>
        /\ PreMode = HBLANK => call.run.line_len = 114
        /\ call.run.vblank_len # 0 => call.run.vblank_len = 10 * 114
        /\ call.run.frame_len # 0 => call.run.frame_len = 17556
        /\ state.gpu.ly = (cycles.gpu - call.run.frame_start) \div 114

\* C9: LY (line counter and register 0xFF44) stays within 0..153, the mode
\* is VBLANK exactly when LY is within 144..153, the line after 153 is line
\* 0 in OAM_SEARCH, and after every step 0xFF44 holds the current line
C9_Original ==
    /\ state.gpu.ly \in 0..153
    /\ MMU_read(state.mmu, LY) \in 0..153
    /\ GPU_MODE(state.mmu) = VBLANK <=> state.gpu.ly \in 144..153
    /\ GpuStepped =>
          /\ MMU_read(state.mmu, LY) = state.gpu.ly
          /\ call.pre.state.gpu.ly = 153 =>
                state.gpu.ly = 0 /\ GPU_MODE(state.mmu) = OAM_SEARCH

\* C10: a visible scanline is three GPU::step() calls, OAM_SEARCH of 20
\* cycles, one LCD_TRANSFER step of 43 cycles, HBLANK of 51 cycles; HBLANK
\* goes to OAM_SEARCH of the next line or, after line 143, to VBLANK;
\* VBLANK goes to OAM_SEARCH of line 0; there is no other mode transition
C10_Original ==
    GpuStepped =>
        /\ PreMode = OAM_SEARCH =>
              call.ret = 20 /\ GPU_MODE(state.mmu) = LCD_TRANSFER
        /\ PreMode = LCD_TRANSFER =>
              call.ret = 43 /\ GPU_MODE(state.mmu) = HBLANK
        /\ PreMode = HBLANK =>
              /\ call.ret = 51
              /\ call.run.line_cnt = 3
              /\ GPU_MODE(state.mmu) =
                    IF call.pre.state.gpu.ly = 143 THEN VBLANK ELSE OAM_SEARCH
              /\ state.gpu.ly = call.pre.state.gpu.ly + 1
        /\ PreMode = VBLANK =>
              \/ GPU_MODE(state.mmu) = VBLANK
              \/ GPU_MODE(state.mmu) = OAM_SEARCH /\ state.gpu.ly = 0

\* C15: while LCDC bit 7 is clear LY reads 0 and the STAT mode is HBLANK,
\* and a PPU step changes neither LY nor the mode and requests no interrupt
C15_Original ==
    GpuStepped /\ ~GPU_LCD_DISPLAY_ENABLE(call.pre.state.mmu) =>
        /\ MMU_read(state.mmu, LY) = 0
        /\ GPU_MODE(state.mmu) = HBLANK
        /\ state.gpu.ly = call.pre.state.gpu.ly
        /\ GPU_MODE(state.mmu) = PreMode
        /\ MMU_read(state.mmu, IF_REG) = MMU_read(call.pre.state.mmu, IF_REG)

(***************************************************************************)
(* Spec: the whole machine.  Runtime::new on a ROM-only cartridge that     *)
(* holds one of the programs below at address 0 (zeros, i.e. NOPs,         *)
(* elsewhere), boot ROM switched off, then the set-up the tests make by    *)
(* hand (the latches and IME on the CPU, IE and IF through safe_write).    *)
(* Afterwards Runtime::step() and presses of the A button interleave.      *)
(***************************************************************************)
\* <<program, IE, IF>>.  The programs: NOPs only;  LD A,5 / LDH (TAC),A /
\* JP 0x0004 (timer on at its fastest rate, then a loop);  LD A,0xFF /
\* LDH (TIMA),A / LD A,5 / LDH (TAC),A / HALT (the timer overflows while the
\* CPU is halted);  STOP 0
RtScenarios ==
    {<< <<>>, 0, 0 >>,
     << <<>>, 2, 2 >>,
     << <<>>, 16, 0 >>,
     << <<>>, 1, 17 >>,
     << <<62, 5, 224, 7, 195, 4, 0>>, 0, 0 >>,
     << <<62, 5, 224, 7, 195, 4, 0>>, 31, 4 >>,
     << <<62, 255, 224, 5, 62, 5, 224, 7, 118>>, 4, 0 >>,
     << <<16, 0>>, 16, 0 >>}

\* <<IME, HALT, STOP>>
RtLatches ==
    {<<TRUE, FALSE, FALSE>>, <<TRUE, TRUE, FALSE>>, <<TRUE, FALSE, TRUE>>,
     <<FALSE, TRUE, FALSE>>}

RtInit ==
    /\ build \in Builds
    /\ \E l \in RtLatches :
          cpu = [CPU_new EXCEPT !.IME = l[1], !.HALT = l[2], !.STOP = l[3]]
    /\ \E sc \in RtScenarios :
          state = safe_write(safe_write(Loaded(0, sc[1]), IE, sc[2]), IF_REG, sc[3])
    /\ cycles = NoCycles
    /\ call = [NotCalled EXCEPT !.pre.cpu = cpu, !.pre.state = state] @@ [steps |-> 0]

\* Runtime::step(): interrupts, one instruction, the joypad, a pending DMA
\* transfer, then the PPU, the timer and the APU catch up in this order
RtStep ==
    /\ ~state.mmu.fault
    /\ call.steps < MaxSteps
    /\ \E i \in {CPU_interrupts(cpu, state)} :
       \E e \in {IF i.state.mmu.fault THEN R(i.cpu, i.state, 0)
                  ELSE CPU_step(i.cpu, i.state)} :
       \E cpu_cycles \in {cycles.cpu + i.ret + e.ret} :
       \E j \in {Joypad_step(e.state.joypad, e.state.mmu)} :
       \E d \in {IF e.state.dma.active THEN DMA_step(e.state.dma, j.mmu)
                  ELSE DM(e.state.dma, j.mmu)} :
       \E g \in {catchup("gpu", d.mmu, e.state.gpu, cpu_cycles, cycles.gpu)} :
       \E t \in {catchup("timer", g.mmu, e.state.timer, cpu_cycles, cycles.timer)} :
       \E a \in {catchup("apu", t.mmu, e.state.apu, cpu_cycles, cycles.apu)} :
          /\ cpu' = e.cpu
          /\ state' = IF e.state.mmu.fault THEN e.state
                       ELSE [mmu |-> a.mmu, gpu |-> g.dev, apu |-> a.dev,
                             timer |-> t.dev, dma |-> d.dev, joypad |-> j.dev]
          /\ cycles' = IF e.state.mmu.fault THEN cycles
                        ELSE [cpu |-> cpu_cycles, gpu |-> g.clk, apu |-> a.clk,
                              timer |-> t.clk]
          /\ call' = Called("step", cycles'.cpu - cycles.cpu) @@
                        [steps |-> call.steps + 1]
    /\ UNCHANGED build

RtPress ==
    /\ ~state.mmu.fault
    /\ \E val \in BOOLEAN :
          /\ state' = [state EXCEPT !.joypad = Joypad_a(@, val)]
          /\ call' = Called("a", 0) @@ [steps |-> call.steps]
    /\ UNCHANGED <<cpu, cycles, build>>

Next == RtStep \/ RtPress

Init == RtInit

Spec == Init /\ [][Next]_vars

\* Runtime::step() returned
RtStepped == call.op = "step" /\ ~state.mmu.fault

\* what interrupts() did at the start of the step that just returned
RtInterrupt == CPU_interrupts(call.pre.cpu, call.pre.state)

\* that call jumped to a vector
RtDispatched == RtInterrupt.ret = 5 /\ call.pre.cpu.IME

\* C4: from IME, HALT, IE = 0x02 and IF = 0x02 one Runtime::step() ends
\* with HALT and IME clear and PC = 0x0048; a step that dispatches
\* interrupt n ends with PC at the vector of n; a step in HALT with no
\* interrupt requested leaves PC unchanged
C4_Original ==
    RtStepped =>
        /\ ( /\ call.pre.cpu.IME /\ call.pre.cpu.HALT /\ ~call.pre.cpu.STOP
             /\ PreIE = 2 /\ PreIF = 2 )
              => ~cpu.HALT /\ ~cpu.IME /\ cpu.PC = 72
        /\ RtDispatched => cpu.PC = RtInterrupt.cpu.PC
        /\ (call.pre.cpu.HALT /\ Pending = {}) => cpu.PC = call.pre.cpu.PC

\* the device counters after a step, by device
ClockOf(kind) ==
    CASE kind = "gpu" -> cycles.gpu
      [] kind = "timer" -> cycles.timer
      [] kind = "apu" -> cycles.apu

DeviceOf(kind) ==
    CASE kind = "gpu" -> state.gpu
      [] kind = "timer" -> state.timer
      [] kind = "apu" -> state.apu

\* C6: after every Runtime::step() each of the PPU, timer and APU counters
\* is at most the CPU counter and the gap is smaller than the device's
\* next_time(); the timer and APU counters equal the CPU counter
C6_CaughtUp ==
    RtStepped =>
        /\ \A kind \in {"gpu", "timer", "apu"} :
              /\ ClockOf(kind) <= cycles.cpu
              /\ cycles.cpu - ClockOf(kind) <
                    Clocked_next_time(kind, DeviceOf(kind), state.mmu)
        /\ cycles.timer = cycles.cpu
        /\ cycles.apu = cycles.cpu

\* a step after which the PPU lags behind the CPU counter while the timer
\* and the APU have been stepped once for each of the step's cycles
C6_Witness ==
    /\ RtStepped
    /\ call.ret > 1
    /\ cycles.gpu < cycles.cpu
    /\ cycles.gpu > 0
    /\ cycles.timer = call.pre.cycles.timer + call.ret
    /\ cycles.apu = cycles.cpu

\* C7: a Runtime::step() that begins and ends with STOP set leaves LY, the
\* STAT mode, the PPU interrupt requests, DIV and TIMA as they were
C7_Original ==
    (RtStepped /\ call.pre.cpu.STOP /\ cpu.STOP) =>
        /\ MMU_read(state.mmu, LY) = MMU_read(call.pre.state.mmu, LY)
        /\ GPU_MODE(state.mmu) = GPU_MODE(call.pre.state.mmu)
        /\ \A b \in {0, 1} :
              MMU_read_bit(state.mmu, IF_REG, b) =>
                 MMU_read_bit(call.pre.state.mmu, IF_REG, b)
        /\ MMU_read(state.mmu, DIV) = MMU_read(call.pre.state.mmu, DIV)
        /\ MMU_read(state.mmu, TIMA) = MMU_read(call.pre.state.mmu, TIMA)

(***************************************************************************)
(* SpecIrq: the PPU stepped as in SpecGpu while the program acknowledges   *)
(* interrupt requests by storing 0 to IF, so that each request the PPU     *)
(* makes shows as a 0 -> 1 change of its IF bit.                           *)
(***************************************************************************)
\* <<LCDC, STAT selection bits, LYC>>
IrqScenarios ==
    {<<128, {}, 0>>, <<128, {4}, 0>>, <<128, {3, 5}, 10>>,
     <<128, {6}, 0>>, <<128, {6}, 10>>, <<128, {6}, 144>>, <<128, {6}, 153>>}

IrqInit ==
    /\ build \in Builds
    /\ cpu = CPU_new
    /\ \E sc \in IrqScenarios :
          \E s1 \in {safe_write(Machine(TRUE), LCDC, sc[1])} :
          \E s2 \in {[s1 EXCEPT !.mmu = SetBits(@, STAT, sc[2])]} :
              state = safe_write(s2, LYC, sc[3])
    /\ cycles = NoCycles
    /\ call = [NotCalled EXCEPT !.pre.cpu = cpu, !.pre.state = state] @@ [run |-> NoScan]

\* the program stores 0 to IF
IrqAck ==
    /\ ~state.mmu.fault
    /\ MMU_read(state.mmu, IF_REG) # 0
    /\ state' = safe_write(state, IF_REG, 0)
    /\ call' = Called("ack", 0) @@ [run |-> call.run]
    /\ UNCHANGED <<cpu, cycles, build>>

IrqNext == GpuStep \/ IrqAck

SpecIrq == IrqInit /\ [][IrqNext]_vars

\* IF bit n before and after the last operation
Requested(n) == MMU_read_bit(state.mmu, IF_REG, n)

WasRequested(n) == MMU_read_bit(call.pre.state.mmu, IF_REG, n)

\* the last operation was a PPU step, taken with the LCD enabled
LcdStepped == GpuStepped /\ GPU_LCD_DISPLAY_ENABLE(call.pre.state.mmu)

\* the last PPU step moved LY to line n
LineEntered(n) == call.pre.state.gpu.ly # n /\ state.gpu.ly = n

\* C11: with the LCD enabled the PPU sets IF bit 0 at the step that makes
\* LY 144 and the mode VBLANK and at no other step; at that step it sets IF
\* bit 1 exactly when STAT bit 4 is set, or STAT bit 6 is set and LYC is 144
C11_VblankRequest ==
    LcdStepped =>
        /\ LineEntered(144) => Requested(0) /\ GPU_MODE(state.mmu) = VBLANK
        /\ ~LineEntered(144) => (Requested(0) <=> WasRequested(0))
        /\ LineEntered(144) /\ ~WasRequested(1) =>
              (Requested(1) <=>
                  \/ MMU_read_bit(state.mmu, STAT, 4)
                  \/ MMU_read_bit(state.mmu, STAT, 6) /\ MMU_read(state.mmu, LYC) = 144)

C11_Witness ==
    /\ LcdStepped
    /\ LineEntered(144)
    /\ ~WasRequested(0) /\ ~WasRequested(1)
    /\ Requested(0) /\ Requested(1)
    /\ ~MMU_read_bit(state.mmu, STAT, 4)
    /\ MMU_read(state.mmu, LYC) = 144

\* C11 as stated: at the step that makes LY 144 the PPU sets IF bit 1 if
\* and only if STAT bit 4 is set
C11_Original ==
    LcdStepped /\ LineEntered(144) /\ ~WasRequested(1) =>
        (Requested(1) <=> MMU_read_bit(state.mmu, STAT, 4))

\* of the STAT selection bits 6..3 only bit 6, the coincidence source, is set
OnlyCoincidence ==
    /\ MMU_read_bit(state.mmu, STAT, 6)
    /\ \A b \in {3, 4, 5} : ~MMU_read_bit(state.mmu, STAT, b)

\* C13: with the LCD enabled, only STAT bit 6 selected and LYC = k, the PPU
\* sets IF bit 1 at the step that makes LY k (for a visible line, the step
\* that enters its OAM_SEARCH) and at no step that does not
C13_CoincidenceRequest ==
    LcdStepped /\ OnlyCoincidence =>
        /\ LineEntered(MMU_read(state.mmu, LYC)) => Requested(1)
        /\ ~LineEntered(MMU_read(state.mmu, LYC)) => (Requested(1) <=> WasRequested(1))

C13_Witness ==
    /\ LcdStepped
    /\ OnlyCoincidence
    /\ MMU_read(state.mmu, LYC) = 10
    /\ LineEntered(10)
    /\ GPU_MODE(state.mmu) = OAM_SEARCH
    /\ ~WasRequested(1)
    /\ Requested(1)

(***************************************************************************)
(* SpecBus: the program's accesses through State::safe_write and           *)
(* State::safe_read, interleaved with single steps of the PPU, the timer   *)
(* and a started OAM DMA.  The machine starts from State::new with the     *)
(* boot ROM off, with or without one byte stored in work RAM beforehand.   *)
(***************************************************************************)
MaxBusOps == 2

\* the registers the claims name, the first byte of VRAM and of OAM
BusAddrs == {LY, LYC, STAT, DIV, DMA_REG, VRAM_ADDR, OAM_ADDR}

\* as a STAT value these select the modes HBLANK, VBLANK, HBLANK and
\* LCD_TRANSFER; as a DMA page they select ROM, the unmapped ROM bank, work
\* RAM and the I/O registers
BusValues == {0, 69, 192, 255}

\* byte 140 of the work RAM page
BusRamByte == RAM_BASE_ADDR + 140

BusInit ==
    /\ build \in Builds
    /\ cpu = CPU_new
    /\ state \in {Machine(TRUE), safe_write(Machine(TRUE), BusRamByte, 69)}
    /\ cycles = NoCycles
    /\ call = [NotCalled EXCEPT !.pre.cpu = cpu, !.pre.state = state]
                 @@ [addr |-> 0, n |-> 0]

BusWrite ==
    /\ ~state.mmu.fault
    /\ call.n < MaxBusOps
    /\ \E addr \in BusAddrs, value \in BusValues :
          /\ state' = safe_write(state, addr, value)
          /\ call' = Called("safe_write", value) @@ [addr |-> addr, n |-> call.n + 1]
    /\ UNCHANGED <<cpu, cycles, build>>

BusRead ==
    /\ ~state.mmu.fault
    /\ \E addr \in BusAddrs :
          call' = Called("safe_read", safe_read(state, addr)) @@ [addr |-> addr, n |-> call.n]
    /\ UNCHANGED <<cpu, state, cycles, build>>

BusGpuStep ==
    /\ ~state.mmu.fault
    /\ call.n < MaxBusOps
    /\ \E r \in {GPU_step(state.gpu, state.mmu)} :
          state' = [state EXCEPT !.gpu = r.dev, !.mmu = r.mmu]
    /\ call' = Called("gpu_step", 0) @@ [addr |-> 0, n |-> call.n + 1]
    /\ UNCHANGED <<cpu, cycles, build>>

BusTimerStep ==
    /\ ~state.mmu.fault
    /\ call.n < MaxBusOps
    /\ \E r \in {Timer_step(state.timer, state.mmu)} :
          state' = [state EXCEPT !.timer = r.dev, !.mmu = r.mmu]
    /\ call' = Called("timer_step", 0) @@ [addr |-> 0, n |-> call.n + 1]
    /\ UNCHANGED <<cpu, cycles, build>>

\* Runtime::step runs the DMA only while it is active
BusDmaStep ==
    /\ ~state.mmu.fault
    /\ state.dma.active
    /\ \E r \in {DMA_step(state.dma, state.mmu)} :
          state' = [state EXCEPT !.dma = r.dev, !.mmu = r.mmu]
    /\ call' = Called("dma_step", 0) @@ [addr |-> 0, n |-> call.n]
    /\ UNCHANGED <<cpu, cycles, build>>

BusNext == BusWrite \/ BusRead \/ BusGpuStep \/ BusTimerStep \/ BusDmaStep

SpecBus == BusInit /\ [][BusNext]_vars

\* safe_write(addr, _) returned
Wrote(addr) == call.op = "safe_write" /\ call.addr = addr /\ ~state.mmu.fault

\* C12: after every PPU step and after every safe_write to LYC, STAT or LY,
\* STAT bit 2 is set exactly when the LY register equals the LYC register
C12_Original ==
    GpuStepped \/ Wrote(LYC) \/ Wrote(STAT) \/ Wrote(LY) =>
        (MMU_read_bit(state.mmu, STAT, 2) <=>
            MMU_read(state.mmu, LY) = MMU_read(state.mmu, LYC))

\* C38: a safe_write of any value to STAT changes only bits 3..6 of the
\* register; the PPU mode in bits 1-0 is the same before and after the write
C38_Original ==
    Wrote(STAT) =>
        /\ GPU_MODE(state.mmu) = GPU_MODE(call.pre.state.mmu)
        /\ \A b \in {0, 1, 2, 7} :
              MMU_read_bit(state.mmu, STAT, b) <=> MMU_read_bit(call.pre.state.mmu, STAT, b)

\* C14: a safe_write of any value to 0xFF44 resets LY to 0: the register
\* reads 0 and the PPU's line counter is 0
C14_Original ==
    Wrote(LY) => MMU_read(state.mmu, LY) = 0 /\ state.gpu.ly = 0

\* the access the last safe_read or safe_write made is one the claim
\* restricts: VRAM during LCD_TRANSFER or OAM during OAM_SEARCH
Restricted ==
    \/ call.addr = VRAM_ADDR /\ PreMode = LCD_TRANSFER
    \/ call.addr = OAM_ADDR /\ PreMode = OAM_SEARCH

\* C16: a safe_read of VRAM during LCD_TRANSFER or of OAM during OAM_SEARCH
\* returns 0xFF and a safe_write there leaves the byte as it was; any other
\* read of VRAM or OAM returns the stored byte and any other write stores
C16_Original ==
    call.addr \in {VRAM_ADDR, OAM_ADDR} /\ ~state.mmu.fault =>
        /\ call.op = "safe_read" =>
              call.ret = IF Restricted THEN 255
                         ELSE MMU_read(call.pre.state.mmu, call.addr)
        /\ call.op = "safe_write" =>
              MMU_read(state.mmu, call.addr) =
                  IF Restricted THEN MMU_read(call.pre.state.mmu, call.addr)
                  ELSE call.ret

\* C17: after the DMA step that follows a safe_write of V to 0xFF46, OAM[i]
\* is the byte that was at (V << 8) + i for every i in 0..159, nothing
\* outside OAM has changed and the DMA is idle
C17_Original ==
    call.op = "dma_step" /\ ~state.mmu.fault =>
        /\ \A i \in 0..(OAM_SIZE - 1) :
              Get(state.mmu.oam, i) =
                  MMU_read(call.pre.state.mmu,
                           MMU_read(call.pre.state.mmu, DMA_REG) * 256 + i)
        /\ state.mmu = [call.pre.state.mmu EXCEPT !.oam = state.mmu.oam]
        /\ ~state.dma.active

\* C18: after a safe_write of any value to DIV (0xFF04) a read of DIV
\* returns 0
C18_DivWrite ==
    Wrote(DIV) => safe_read(state, DIV) = 0

C18_Witness ==
    /\ Wrote(DIV)
    /\ call.ret = 69
    /\ safe_read(call.pre.state, DIV) = 1
    /\ safe_read(state, DIV) = 0

(***************************************************************************)
(* SpecTimer: Timer::step called once per machine cycle on a fresh timer,  *)
(* as Runtime::catchup does, with TAC (and in two runs TIMA) set up        *)
(* beforehand and the program storing to DIV at a few points.  `call`      *)
(* counts the steps since the timer was fresh or DIV was written, and for  *)
(* DIV and TIMA the steps since the register last changed.                 *)
(***************************************************************************)
MaxTimerSteps == 600

\* <<TAC, TIMA, TMA, IF>>
TimerScenarios ==
    {<<tac, 0, 0, 0>> : tac \in 0..7} \cup {<<5, 254, 171, 227>>, <<7, 254, 0, 0>>}

\* the values the program may store to TIMA
TimerTimaValues == {21, 255}

\* the step counts at which the program may store to DIV
TimerWriteAt == {1, 70, 300}

\* ticks: changes of the register so far; gap: steps since the last one;
\* period: at a step that changed it, the steps since the change before
NoTicks == [ticks |-> 0, gap |-> 0, period |-> 0]

Ticked(t, changed) ==
    [ticks |-> IF changed THEN t.ticks + 1 ELSE t.ticks,
     gap |-> IF changed THEN 0 ELSE t.gap + 1,
     period |-> IF changed /\ t.ticks > 0 THEN t.gap + 1 ELSE 0]

TimerInit ==
    /\ build \in Builds
    /\ cpu = CPU_new
    /\ \E sc \in TimerScenarios :
          \E s1 \in {safe_write(Machine(TRUE), TAC, sc[1])} :
              state = [s1 EXCEPT !.mmu =
                          MMU_write(MMU_write(MMU_write(@, TIMA, sc[2]), TMA, sc[3]),
                                    IF_REG, sc[4])]
    /\ cycles = NoCycles
    /\ call = [NotCalled EXCEPT !.pre.cpu = cpu, !.pre.state = state]
                 @@ [steps |-> 0, since |-> 0, written |-> FALSE,
                     div |-> NoTicks, tima |-> NoTicks, tv |-> -1, tsince |-> 0]

TimerStep ==
    /\ ~state.mmu.fault
    /\ call.steps < MaxTimerSteps
    /\ \E r \in {Timer_step(state.timer, state.mmu)}, c \in {call} :
          /\ state' = [state EXCEPT !.timer = r.dev, !.mmu = r.mmu]
          /\ call' = Called("timer_step", Timer_next_time(state.timer, state.mmu)) @@
                [steps |-> c.steps + 1, since |-> c.since + 1, written |-> c.written,
                 div |-> Ticked(c.div, MMU_read(r.mmu, DIV) # MMU_read(state.mmu, DIV)),
                 tima |-> Ticked(c.tima, MMU_read(r.mmu, TIMA) # MMU_read(state.mmu, TIMA)),
                 tv |-> c.tv, tsince |-> c.tsince + 1]
    /\ cycles' = [cycles EXCEPT !.timer = @ + Timer_next_time(state.timer, state.mmu)]
    /\ UNCHANGED <<cpu, build>>

\* the program stores to DIV, once
TimerDivWrite ==
    /\ ~state.mmu.fault
    /\ ~call.written
    /\ call.steps \in TimerWriteAt
    /\ state' = safe_write(state, DIV, 105)
    /\ call' = Called("safe_write", 105) @@
          [steps |-> call.steps, since |-> 0, written |-> TRUE,
           div |-> NoTicks, tima |-> call.tima, tv |-> call.tv, tsince |-> call.tsince]
    /\ UNCHANGED <<cpu, cycles, build>>

\* the program stores to TIMA, once, instead of storing to DIV
TimerTimaWrite ==
    /\ ~state.mmu.fault
    /\ ~call.written
    /\ call.steps \in TimerWriteAt
    /\ \E v \in TimerTimaValues :
          /\ state' = safe_write(state, TIMA, v)
          /\ call' = Called("safe_write", v) @@
                [steps |-> call.steps, since |-> call.since, written |-> TRUE,
                 div |-> call.div, tima |-> NoTicks, tv |-> v, tsince |-> 0]
    /\ UNCHANGED <<cpu, cycles, build>>

TimerNext == TimerStep \/ TimerDivWrite \/ TimerTimaWrite

SpecTimer == TimerInit /\ [][TimerNext]_vars

\* Timer::step() returned
TimerStepped == call.op = "timer_step" /\ ~state.mmu.fault

\* C19: n Timer::step calls after the timer was fresh or DIV was written,
\* DIV reads floor(n / 64) mod 256 whatever TAC holds
C19_Original ==
    TimerStepped => MMU_read(state.mmu, DIV) = (call.since \div 64) % 256

\* C20: while TAC bit 2 is set TIMA changes once in every N consecutive
\* Timer::step calls, N = 256, 4, 16, 64 for TAC bits 1-0 = 00, 01, 10, 11,
\* each change being an advance by one (at 0xFF, to TMA by the overflow
\* reload); while TAC bit 2 is clear TIMA never changes and DIV goes on
\* changing once in every 64 steps
C20_TimaRate ==
    TimerStepped =>
        /\ MMU_read_bit(state.mmu, TAC, 2) =>
              /\ call.tima.gap <
                    CASE MMU_read(state.mmu, TAC) % 4 = 0 -> 256
                      [] MMU_read(state.mmu, TAC) % 4 = 1 -> 4
                      [] MMU_read(state.mmu, TAC) % 4 = 2 -> 16
                      [] MMU_read(state.mmu, TAC) % 4 = 3 -> 64
              /\ call.tima.period # 0 =>
                    call.tima.period =
                        CASE MMU_read(state.mmu, TAC) % 4 = 0 -> 256
                          [] MMU_read(state.mmu, TAC) % 4 = 1 -> 4
                          [] MMU_read(state.mmu, TAC) % 4 = 2 -> 16
                          [] MMU_read(state.mmu, TAC) % 4 = 3 -> 64
              /\ call.tima.gap = 0 =>
                    MMU_read(state.mmu, TIMA) =
                        IF MMU_read(call.pre.state.mmu, TIMA) = 255
                        THEN MMU_read(call.pre.state.mmu, TMA)
                        ELSE MMU_read(call.pre.state.mmu, TIMA) + 1
        /\ ~MMU_read_bit(state.mmu, TAC, 2) =>
              /\ MMU_read(state.mmu, TIMA) = MMU_read(call.pre.state.mmu, TIMA)
              /\ call.tima.ticks = 0
              /\ call.div.gap < 64
              /\ call.div.period # 0 => call.div.period = 64

C20_Witness ==
    /\ TimerStepped
    /\ MMU_read(state.mmu, TAC) = 4
    /\ call.tima.period = 256
    /\ MMU_read(state.mmu, TIMA) = 3

\* the last Timer::step found the counter enabled and a TIMA tick due
TimaTick ==
    /\ MMU_read_bit(call.pre.state.mmu, TAC, 2)
    /\ call.pre.state.timer.tima_cycle % Timer_MODE(call.pre.state.mmu) = 0

\* C21: a TIMA tick at 0xFF makes TIMA the value of TMA and sets IF bit 2; a
\* tick at any other value adds 1 to TIMA and leaves IF as it was; a step
\* without a tick changes neither; no step changes an IF bit other than 2
C21_Overflow ==
    TimerStepped =>
        /\ TimaTick /\ MMU_read(call.pre.state.mmu, TIMA) = 255 =>
              /\ MMU_read(state.mmu, TIMA) = MMU_read(call.pre.state.mmu, TMA)
              /\ MMU_read_bit(state.mmu, IF_REG, 2)
        /\ TimaTick /\ MMU_read(call.pre.state.mmu, TIMA) # 255 =>
              /\ MMU_read(state.mmu, TIMA) = MMU_read(call.pre.state.mmu, TIMA) + 1
              /\ MMU_read(state.mmu, IF_REG) = MMU_read(call.pre.state.mmu, IF_REG)
        /\ ~TimaTick =>
              /\ MMU_read(state.mmu, TIMA) = MMU_read(call.pre.state.mmu, TIMA)
              /\ MMU_read(state.mmu, IF_REG) = MMU_read(call.pre.state.mmu, IF_REG)
        /\ \A b \in (0..7) \ {2} :
              MMU_read_bit(state.mmu, IF_REG, b) <=>
                  MMU_read_bit(call.pre.state.mmu, IF_REG, b)

C21_Witness ==
    /\ TimerStepped
    /\ TimaTick
    /\ MMU_read(call.pre.state.mmu, TIMA) = 255
    /\ MMU_read(call.pre.state.mmu, IF_REG) = 227
    /\ MMU_read(state.mmu, TIMA) = 171
    /\ MMU_read(state.mmu, IF_REG) = 231

\* C22: after a safe_write of v to TIMA with the counter enabled, TIMA reads
\* v for the next N - 1 timer steps and changes, to v + 1 or at 0xFF to TMA,
\* at the N-th step after the write, N being the period TAC selects
C22_Original ==
    TimerStepped /\ call.tv # -1 /\ MMU_read_bit(state.mmu, TAC, 2) =>
        /\ call.tsince < Timer_MODE(state.mmu) => MMU_read(state.mmu, TIMA) = call.tv
        /\ call.tsince = Timer_MODE(state.mmu) =>
              MMU_read(state.mmu, TIMA) =
                  IF call.tv = 255 THEN MMU_read(state.mmu, TMA) ELSE call.tv + 1

(***************************************************************************)
(* SpecMbc: MMU::new on each of the three mappers, loaded with a ROM image *)
(* that differs from one 8 KiB block to the next, then any sequence of     *)
(* writes through State::safe_write to the mapper's control regions, the   *)
(* cartridge RAM window and the BOOT register, reads of the ROM and RAM    *)
(* windows, and (MBC3) the wall clock moving on.  `call` also keeps the    *)
(* last values written to 0x2000-0x3FFF, 0x4000-0x5FFF and 0x6000-0x7FFF   *)
(* (-1: none yet), whether a non-zero byte was ever written to BOOT, and   *)
(* the wall clock at the last write of 1 to 0x6000-0x7FFF that directly    *)
(* followed a write of 0 there, with the number of such writes.            *)
(***************************************************************************)
MbcTypes == {"RomOnly", "MBC1", "MBC3"}

\* the byte of the image at offset i: block number mod 255, plus 1
RomByte(i) == ((i \div 8192) % 255) + 1

\* a 2 MiB image, given by the first byte of each 8 KiB block
MbcImage == [i \in {b * 8192 : b \in 0..255} |-> RomByte(i)]

\* the first two bytes of the boot ROM
MbcBootstrap == (0 :> 49) @@ (1 :> 254)

MbcMapper(type) ==
    CASE type = "RomOnly" -> RomOnly_new([i \in {b * 8192 : b \in 0..3} |-> RomByte(i)])
      [] type = "MBC1" -> MBC1_new(MbcImage)
      [] type = "MBC3" -> MBC3_new(MbcImage)

\* <<address, value>> of the writes explored on each mapper
MbcWrites(type) ==
    {<<BOOT, 1>>} \cup
    CASE type = "RomOnly" ->
            {<<BOOT, 0>>, <<RAM_SWITCHABLE_ADDR, 85>>,
             <<0, 10>>, <<8192, 2>>, <<16384, 1>>, <<24576, 1>>}
      [] type = "MBC1" ->
            {<<BOOT, 0>>, <<RAM_SWITCHABLE_ADDR, 85>>}
               \cup {<<0, v>> : v \in {0, 10, 26, 11}}
               \cup {<<8192, v>> : v \in {0, 34}}
               \cup {<<16384, v>> : v \in {0, 1, 3}} \cup {<<24576, v>> : v \in {0, 1}}
      [] type = "MBC3" ->
            {<<0, 0>>, <<8192, 2>>, <<16384, 0>>, <<16384, 8>>}
               \cup {<<24576, v>> : v \in {0, 1, 2}}

MbcReads == {0, 16384, RAM_SWITCHABLE_ADDR}

MbcTimes ==
    {[second |-> 10, minute |-> 20, hour |-> 3, day |-> 4],
     [second |-> 11, minute |-> 20, hour |-> 3, day |-> 4]}

NoControl ==
    [addr |-> 0, a2 |-> -1, a4 |-> -1, a6 |-> -1, unmapped |-> FALSE,
     latched |-> [second |-> 0, minute |-> 0, hour |-> 0, day |-> 1], latches |-> 0]

MbcInit ==
    /\ build \in Builds
    /\ cpu = CPU_new
    /\ \E type \in MbcTypes : state = State_new(MbcMapper(type), MbcBootstrap)
    /\ cycles = NoCycles
    /\ call = [NotCalled EXCEPT !.pre.cpu = cpu, !.pre.state = state] @@ NoControl

\* what `call` keeps, after a write of value to addr
Control(c, mapper, addr, value) ==
    [addr |-> addr,
     a2 |-> IF addr \in 8192..16383 THEN value ELSE c.a2,
     a4 |-> IF addr \in 16384..24575 THEN value ELSE c.a4,
     a6 |-> IF addr \in 24576..32767 THEN value ELSE c.a6,
     unmapped |-> c.unmapped \/ (addr = BOOT /\ value # 0),
     latched |-> IF addr \in 24576..32767 /\ value = 1 /\ c.a6 = 0
                 THEN mapper.utc ELSE c.latched,
     latches |-> IF addr \in 24576..32767 /\ value = 1 /\ c.a6 = 0
                 THEN 1 ELSE c.latches]

MbcWrite ==
    /\ ~state.mmu.fault
    /\ \E w \in MbcWrites(Mapper_type(state.mmu.mapper)) :
          /\ state' = safe_write(state, w[1], w[2])
          /\ call' = Called("write", w[2]) @@
                IF Mapper_type(state.mmu.mapper) = "MBC3"
                THEN Control(call, state.mmu.mapper, w[1], w[2])
                ELSE Control(call, [utc |-> NoControl.latched], w[1], w[2])
    /\ UNCHANGED <<cpu, cycles, build>>

\* State::safe_read; a read that panics leaves the machine faulted
MbcRead ==
    /\ ~state.mmu.fault
    /\ \E addr \in MbcReads :
          /\ state' = IF MMU_read_faults(state.mmu, addr) THEN Faulted(state) ELSE state
          /\ call' = [call EXCEPT !.op = "read", !.ret = safe_read(state, addr),
                                  !.pre = Snapshot, !.addr = addr]
    /\ UNCHANGED <<cpu, cycles, build>>

\* the host's clock moves on
MbcClock ==
    /\ ~state.mmu.fault
    /\ Mapper_type(state.mmu.mapper) = "MBC3"
    /\ \E now \in MbcTimes \ {state.mmu.mapper.utc} :
          state' = [state EXCEPT !.mmu.mapper.utc = now]
    /\ call' = [call EXCEPT !.op = "clock", !.ret = 0, !.pre = Snapshot, !.addr = 0]
    /\ UNCHANGED <<cpu, cycles, build>>

MbcNext == MbcWrite \/ MbcRead \/ MbcClock

SpecMbc == MbcInit /\ [][MbcNext]_vars

\* safe_write(call.addr, call.ret) returned
MbcWrote == call.op = "write" /\ ~state.mmu.fault

MbcType == Mapper_type(state.mmu.mapper)

\* the vector a mapper keeps its ROM in
RomStorage(mapper) ==
    IF Mapper_type(mapper) = "RomOnly" THEN mapper.rom_banks ELSE mapper.rom

\* the bootstrap overlay was off when the last operation began
OverlayWasOff == MMU_read(call.pre.state.mmu, BOOT) # 0

\* C23: on every mapper a write to an address in 0x0000-0x7FFF leaves every
\* byte of the ROM storage as it was; it changes nothing outside the
\* mapper, and of the mapper neither the cartridge RAM nor (ROM-only) anything
C23_RomUnchanged ==
    MbcWrote /\ call.addr < 32768 =>
        /\ RomStorage(state.mmu.mapper) = RomStorage(call.pre.state.mmu.mapper)
        /\ state = [call.pre.state EXCEPT !.mmu.mapper = state.mmu.mapper]
        /\ MbcType # "RomOnly" => state.mmu.mapper.ram = call.pre.state.mmu.mapper.ram
        /\ MbcType = "RomOnly" => state.mmu.mapper = call.pre.state.mmu.mapper

C23_Witness ==
    /\ MbcWrote
    /\ MbcType = "MBC1"
    /\ call.addr = 8192
    /\ state.mmu.mapper.idx # call.pre.state.mmu.mapper.idx
    /\ state.mmu.mapper.rom = MbcImage

\* C24: with the overlay off, a read of A after a write to A returns the
\* byte a read of A returned before the write, for A in 0x0000..0x3FFF on
\* every mapper and for A in 0x4000..0x7FFF on the ROM-only mapper and MBC3
C24_ReadBack ==
    MbcWrote /\ call.addr < 32768 /\ OverlayWasOff
             /\ (call.addr < ROM_SWITCHABLE_ADDR \/ MbcType # "MBC1") =>
        MMU_read(state.mmu, call.addr) = MMU_read(call.pre.state.mmu, call.addr)

C24_Witness ==
    /\ MbcWrote
    /\ OverlayWasOff
    /\ MbcType = "MBC3"
    /\ call.addr = ROM_SWITCHABLE_ADDR
    /\ state.mmu.mapper.ram_idx = 8
    /\ call.pre.state.mmu.mapper.ram_idx = 0
    /\ MMU_read(state.mmu, call.addr) = RomByte(ROM_BANK_SIZE)

\* C24 as stated: for every A in 0x0000..0x7FFF and every mapper
C24_Original ==
    MbcWrote /\ call.addr < 32768 /\ OverlayWasOff =>
        MMU_read(state.mmu, call.addr) = MMU_read(call.pre.state.mmu, call.addr)

\* C25: on MBC1 the bank mapped at 0x4000-0x7FFF never has its low 5 bits
\* zero and lies within the 128 banks; once a value with low 5 bits zero was
\* the last written to 0x2000-0x3FFF and u the last written to 0x4000-0x5FFF,
\* in either order, in ROM mode the window reads bank 32 * (u mod 4) + 1
C25_BankNeverZero ==
    MbcType = "MBC1" /\ ~state.mmu.fault =>
        /\ MBC1_rom_idx(state.mmu.mapper) % 32 # 0
        /\ MBC1_rom_idx(state.mmu.mapper) < 128
        /\ call.a2 # -1 /\ call.a2 % 32 = 0 /\ call.a4 # -1
              /\ state.mmu.mapper.banking_mode = ROM_MODE =>
              MMU_read(state.mmu, ROM_SWITCHABLE_ADDR) =
                  RomByte((32 * (call.a4 % 4) + 1) * ROM_BANK_SIZE)

C25_Witness ==
    /\ MbcWrote
    /\ MbcType = "MBC1"
    /\ call.addr = 8192 /\ call.a2 = 0 /\ call.a4 = 3
    /\ state.mmu.mapper.banking_mode = ROM_MODE
    /\ MMU_read(state.mmu, ROM_SWITCHABLE_ADDR) = RomByte(97 * ROM_BANK_SIZE)

\* C26: on MBC1 after a write of v to 0x0000-0x1FFF the cartridge RAM is
\* enabled exactly when v mod 16 = 10; while it is disabled 0xA000 reads
\* 0xFF and a write there changes nothing
C26_Original ==
    MbcType = "MBC1" /\ ~state.mmu.fault =>
        /\ call.op = "write" /\ call.addr < 8192 =>
              (state.mmu.mapper.ram_enabled <=> call.ret % 16 = 10)
        /\ ~state.mmu.mapper.ram_enabled =>
              MMU_read(state.mmu, RAM_SWITCHABLE_ADDR) = 255
        /\ call.op = "write" /\ call.addr = RAM_SWITCHABLE_ADDR
              /\ ~state.mmu.mapper.ram_enabled =>
              state.mmu.mapper = call.pre.state.mmu.mapper

\* the RAM bank the claim names: in RAM mode the low 2 bits of the last
\* value written to 0x4000-0x5FFF, in ROM mode 0
ClaimedRamBank ==
    IF state.mmu.mapper.banking_mode = RAM_MODE THEN call.a4 % 4 ELSE 0

\* C27: on MBC1 with the RAM enabled, a write to 0xA000 stores in, and a
\* read of 0xA000 returns, the first byte of that RAM bank, whatever was
\* written to 0x2000-0x3FFF
C27_Original ==
    MbcType = "MBC1" /\ ~state.mmu.fault /\ state.mmu.mapper.ram_enabled
                     /\ call.a4 # -1 /\ call.addr = RAM_SWITCHABLE_ADDR =>
        /\ call.op = "write" =>
              Get(state.mmu.mapper.ram, ClaimedRamBank * RAM_BANK_SIZE) = call.ret
        /\ call.op = "read" =>
              call.ret = Get(state.mmu.mapper.ram, ClaimedRamBank * RAM_BANK_SIZE)

\* C28: on MBC3, once a write of 1 to 0x6000-0x7FFF has directly followed a
\* write of 0 there, a read of 0xA000 with the RTC seconds register selected
\* returns the seconds of the wall clock at the last such write
C28_Original ==
    MbcType = "MBC3" /\ ~state.mmu.fault /\ call.latches > 0
                     /\ call.op = "read" /\ call.addr = RAM_SWITCHABLE_ADDR
                     /\ state.mmu.mapper.ram_idx = 8 =>
        call.ret = call.latched.second

\* C29: address 0 reads the boot ROM until a non-zero byte is written to
\* 0xFF50 and the cartridge ROM ever after
C29_Original ==
    ~state.mmu.fault =>
        MMU_read(state.mmu, 0) = IF call.unmapped THEN RomByte(0) ELSE MbcBootstrap[0]

\* C30: on the ROM-only mapper with the overlay off every address below
\* 0x8000 reads the byte of the image at that offset, whatever was written
\* before, and a write below 0x8000 does not fault
C30_Original ==
    MbcType = "RomOnly" /\ MMU_read(state.mmu, BOOT) # 0 =>
        /\ \A a \in {0, 8192, 16384, 24576} :
              ~state.mmu.fault => MMU_read(state.mmu, a) = RomByte(a)
        /\ call.op = "write" /\ call.addr < 32768 /\ OverlayWasOff => ~state.mmu.fault

(***************************************************************************)
(* The joypad: the host's key handlers (Joypad::a .. Joypad::up),          *)
(* Joypad::step, and the program's writes to P1 (column select) and to IF  *)
(* (acknowledge).                                                          *)
(***************************************************************************)
\* keys pressed in the runs: two of the button column, one direction
Buttons == {"a", "start", "up"}

\* column selects: button keys, direction keys, none
JoySelects == {16, 32, 48}

JoyInit ==
    /\ build \in Builds
    /\ cpu = CPU_new
    /\ state = Machine(TRUE)
    /\ cycles = NoCycles
    /\ call = [NotCalled EXCEPT !.pre.cpu = cpu, !.pre.state = state]
                 @@ [held |-> {}, edge |-> FALSE, acked |-> FALSE]

\* a key handler is called with the key's state; held and edge follow the
\* inputs themselves: the keys now down, and whether some key went from up
\* to down since the last Joypad::step
JoyPress ==
    /\ ~state.mmu.fault
    /\ \E button \in Buttons, val \in BOOLEAN :
          /\ state' = [state EXCEPT !.joypad = Joypad_set(@, button, val)]
          /\ call' = Called("press", B2N(val)) @@
                        [held |-> IF val THEN call.held \cup {button}
                                  ELSE call.held \ {button},
                         edge |-> call.edge \/ (val /\ button \notin call.held),
                         acked |-> call.acked]
    /\ UNCHANGED <<cpu, cycles, build>>

JoyStep ==
    /\ ~state.mmu.fault
    /\ \E j \in {Joypad_step(state.joypad, state.mmu)} :
          state' = [state EXCEPT !.joypad = j.dev, !.mmu = j.mmu]
    /\ call' = Called("step", B2N(call.edge)) @@
                  [held |-> call.held, edge |-> FALSE,
                   acked |-> call.acked /\ ~call.edge]
    /\ UNCHANGED <<cpu, cycles, build>>

JoySelect ==
    /\ ~state.mmu.fault
    /\ \E value \in JoySelects :
          /\ value # MMU_read(state.mmu, P1) - (MMU_read(state.mmu, P1) % 16)
          /\ state' = safe_write(state, P1, value)
          /\ call' = [call EXCEPT !.op = "select", !.ret = value, !.pre = Snapshot]
    /\ UNCHANGED <<cpu, cycles, build>>

\* the program clears IF bit 4
JoyAck ==
    /\ ~state.mmu.fault
    /\ MMU_read_bit(state.mmu, IF_REG, 4)
    /\ state' = safe_write(state, IF_REG, 0)
    /\ call' = [call EXCEPT !.op = "ack", !.ret = 0, !.pre = Snapshot, !.acked = TRUE]
    /\ UNCHANGED <<cpu, cycles, build>>

JoyNext == JoyPress \/ JoyStep \/ JoySelect \/ JoyAck

SpecJoy == JoyInit /\ [][JoyNext]_vars

\* Joypad::step returned; call.ret is 1 when a key went down since the
\* step before
JoyStepped == call.op = "step" /\ ~state.mmu.fault

\* C31: Joypad::step sets IF bit 4 exactly when some key went from released
\* to pressed since the previous step, and leaves IF as it was otherwise:
\* held keys and releases request nothing, and after the program has
\* cleared the bit it stays clear until the step after a new press
C31_PressEdge ==
    /\ JoyStepped =>
          MMU_read(state.mmu, IF_REG) =
              IF call.ret = 1 THEN Or8(MMU_read(call.pre.state.mmu, IF_REG), 16)
              ELSE MMU_read(call.pre.state.mmu, IF_REG)
    /\ call.acked /\ ~state.mmu.fault /\ call.op # "press" /\ ~call.edge =>
          ~MMU_read_bit(state.mmu, IF_REG, 4)

\* a key is held over a step after its press was acknowledged
C31_Witness ==
    /\ JoyStepped
    /\ call.ret = 0
    /\ call.acked
    /\ "a" \in call.held
    /\ ~MMU_read_bit(state.mmu, IF_REG, 4)

\* a step after a press sets the bit
C31_WitnessPress ==
    /\ JoyStepped
    /\ call.ret = 1
    /\ ~MMU_read_bit(call.pre.state.mmu, IF_REG, 4)
    /\ MMU_read_bit(state.mmu, IF_REG, 4)

(***************************************************************************)
(* SpecProg: short programs run from 0x0100 (256) by CPU::step(), one      *)
(* instruction per step, until the program's last instruction has been     *)
(* executed.                                                               *)
(***************************************************************************)
\* PUSH rr ; POP rr for BC, DE, HL, AF, and PUSH DE ; POP AF ; PUSH AF
StackPrograms ==
    {<<197, 193>>, <<213, 209>>, <<229, 225>>, <<245, 241>>, <<213, 241, 245>>}

\* the values of the register pairs: the low byte of 0x55AF and of 0xFFFF
\* has a non-zero low nibble
StackValues == {0, 4656, 21935, 65535}

\* SP in the work RAM (at its first word and at its end) and in the high RAM
\* (at its first word and at its end)
StackPointers == {49154, 57344, 65410, 65534}

\* <<Z, N, H, C>>
StackFlags ==
    {<<FALSE, FALSE, FALSE, FALSE>>, <<TRUE, TRUE, TRUE, TRUE>>,
     <<TRUE, FALSE, TRUE, FALSE>>, <<FALSE, TRUE, FALSE, TRUE>>}

\* the packed-BCD bytes
Bcd == {16 * hi + lo : hi \in 0..9, lo \in 0..9}

\* the number a packed-BCD byte stands for
BcdValue(b) == 10 * (b \div 16) + (b % 16)

\* ADD A,d ; DAA ; SUB A,d ; DAA
BcdProgram(d) == <<198, d, 39, 214, d, 39>>

\* the number of instructions of a program
ProgLength(bytes) == IF Len(bytes) = 6 THEN 4 ELSE Len(bytes)

ProgStart(bytes, c) ==
    /\ cpu = c
    /\ state = Loaded(256, bytes)
    /\ cycles = NoCycles
    /\ call = [NotCalled EXCEPT !.pre.cpu = cpu, !.pre.state = state]
                 @@ [prog |-> bytes, n |-> 0, start |-> c]

ProgInit ==
    /\ build \in Builds
    /\ \/ \E bytes \in StackPrograms, v \in StackValues, sp \in StackPointers,
             f \in StackFlags :
             ProgStart(bytes,
                       [CPU_new EXCEPT !.PC = 256, !.SP = sp, !.A = word_up(v),
                                       !.BC = v, !.DE = v, !.HL = v,
                                       !.Z = f[1], !.N = f[2], !.H = f[3], !.C = f[4]])
       \/ \E a \in Bcd, d \in Bcd :
             ProgStart(BcdProgram(d), [CPU_new EXCEPT !.PC = 256, !.A = a])

ProgStep ==
    /\ ~state.mmu.fault
    /\ call.n < ProgLength(call.prog)
    /\ \E r \in {CPU_step(cpu, state)} :
          /\ cpu' = r.cpu
          /\ state' = r.state
          /\ cycles' = [cycles EXCEPT !.cpu = @ + r.ret]
          /\ call' = Called("step", r.ret) @@
                        [prog |-> call.prog, n |-> call.n + 1, start |-> call.start]
    /\ UNCHANGED build

ProgNext == ProgStep

SpecProg == ProgInit /\ [][ProgNext]_vars

\* the first n instructions of the program have been executed
ProgAt(n) == call.n = n /\ ~state.mmu.fault

\* the program is PUSH rr ; POP rr
PushPop == call.prog \in {<<197, 193>>, <<213, 209>>, <<229, 225>>, <<245, 241>>}

\* C32: with SP in the work RAM or the high RAM, after PUSH rr ; POP rr the
\* pair rr and SP have the values they had before the PUSH (BC, DE, HL), and
\* so have A and the flags Z, N, H, C (AF); the other registers are as before
C32_PushPop ==
    PushPop /\ ProgAt(2) =>
        /\ cpu.SP = call.start.SP
        /\ cpu.BC = call.start.BC /\ cpu.DE = call.start.DE /\ cpu.HL = call.start.HL
        /\ cpu.A = call.start.A
        /\ cpu.Z = call.start.Z /\ cpu.N = call.start.N
        /\ cpu.H = call.start.H /\ cpu.C = call.start.C

C32_Witness ==
    /\ ProgAt(2)
    /\ call.prog = <<245, 241>>
    /\ call.start.SP = 65410
    /\ cpu.A = 85 /\ cpu.N /\ ~cpu.Z
    /\ safe_read(state, 65408) = CPU_F(call.start)
    /\ safe_read(state, 65409) = 85

\* C33: the low 4 bits of F() are 0 in every state, and so are the low 4
\* bits of the byte PUSH AF stores for F - also after POP AF has loaded a
\* byte with a non-zero low nibble
C33_FLowNibble ==
    ~state.mmu.fault =>
        /\ CPU_F(cpu) % 16 = 0
        /\ word(cpu.A, CPU_F(cpu)) % 16 = 0
        /\ call.op = "step" /\ safe_read(call.pre.state, call.pre.cpu.PC) = 245 =>
              safe_read(state, cpu.SP) = CPU_F(cpu)

\* PUSH DE ; POP AF ; PUSH AF with E = 0xAF
C33_Witness ==
    /\ ProgAt(3)
    /\ call.prog = <<213, 241, 245>>
    /\ call.start.DE = 21935
    /\ cpu.A = 85
    /\ safe_read(state, cpu.SP) = 160
    /\ safe_read(state, cpu.SP + 1) = 85

\* the program is ADD A,d ; DAA ; SUB A,d ; DAA
BcdRun == Len(call.prog) = 6

\* C37: from a packed-BCD A = a and operand d, after ADD A,d ; DAA register
\* A is the packed-BCD form of (a + d) mod 100 and C is set exactly when
\* a + d exceeds 99; after SUB A,d ; DAA register A is a again
C37_DaaRoundTrip ==
    BcdRun =>
        /\ ProgAt(2) =>
              /\ cpu.A \in Bcd
              /\ BcdValue(cpu.A) =
                     (BcdValue(call.start.A) + BcdValue(call.prog[2])) % 100
              /\ cpu.C <=> BcdValue(call.start.A) + BcdValue(call.prog[2]) > 99
        /\ ProgAt(4) => cpu.A = call.start.A

\* 0x99 + 0x99: the sum passes 99 with a carry out of both digits
C37_Witness ==
    /\ BcdRun
    /\ ProgAt(4)
    /\ call.start.A = 153
    /\ call.prog[2] = 153
    /\ cpu.A = 153

\* the cycle budget of a host frame (src/src/state.rs)
CPU_CYCLES_PER_FRAME == (2^20) \div 60

\* C34: the per-frame CPU cycle budget is 17556 machine cycles and equals
\* the PPU's frame length FRAME_CYCLES, so that a frame the PPU completes
\* has taken exactly the budget
C34_Original ==
    GpuStepped /\ call.run.frame_len > 0 =>
        /\ CPU_CYCLES_PER_FRAME = 17556
        /\ CPU_CYCLES_PER_FRAME = FRAME_CYCLES
        /\ call.run.frame_len = CPU_CYCLES_PER_FRAME

(***************************************************************************)
(* SpecApu: the APU clocked on its own by APU::step(), from a machine      *)
(* whose NR10 the program has written; once along the run the program      *)
(* triggers channel 1 again through NR14.                                  *)
(***************************************************************************)
\* NR10: the value after MMU::new (sweep time 8, shift 0), sweep time 0,
\* and sweep time 2 with a decreasing sweep of shift 2
ApuSweeps == {128, 0, 42}

\* the step counts at which the program may trigger the channel
ApuTriggerAt == {7000}

ApuInit ==
    /\ build \in Builds
    /\ cpu = CPU_new
    /\ \E nr10 \in ApuSweeps : state = safe_write(Machine(TRUE), NR_10, nr10)
    /\ cycles = NoCycles
    /\ call = [NotCalled EXCEPT !.pre.cpu = cpu, !.pre.state = state]
                 @@ [n |-> 0, triggered |-> FALSE]

ApuStep ==
    /\ ~state.mmu.fault
    /\ call.n < MaxApuSteps
    /\ \E r \in {APU_step(state.apu, state.mmu)} :
          state' = [state EXCEPT !.apu = r.dev, !.mmu = r.mmu]
    /\ cycles' = [cycles EXCEPT !.apu = @ + APU_next_time(state.apu, state.mmu)]
    /\ call' = Called("apu_step", 0) @@
                  [n |-> call.n + 1, triggered |-> call.triggered]
    /\ UNCHANGED <<cpu, build>>

\* the program sets NR14 bit 7 (frequency bits 10..8 = 7 as after MMU::new)
ApuTrigger ==
    /\ ~state.mmu.fault
    /\ ~call.triggered
    /\ call.n \in ApuTriggerAt
    /\ state' = safe_write(state, NR_14, 135)
    /\ call' = Called("trigger", 0) @@ [n |-> call.n, triggered |-> TRUE]
    /\ UNCHANGED <<cpu, cycles, build>>

ApuNext == ApuStep \/ ApuTrigger

SpecApu == ApuInit /\ [][ApuNext]_vars

\* APU::step() returned
ApuStepped == call.op = "apu_step" /\ ~state.mmu.fault

\* the step found channel 1 enabled with no trigger pending, so that the
\* step changed the channel's counters only through the sequencer's clocks
ApuObserved ==
    /\ ApuStepped
    /\ MMU_read_bit(call.pre.state.mmu, NR_52, 0)
    /\ ~MMU_read_bit(call.pre.state.mmu, NR_14, 7)

\* what the step did to channel 1
LengthClocked ==
    state.apu.chan1.length # call.pre.state.apu.chan1.length

SweepClocked ==
    state.apu.chan1.sweep_timer # call.pre.state.apu.chan1.sweep_timer

EnvelopeClocked ==
    state.apu.chan1.envelope_count # call.pre.state.apu.chan1.envelope_count

\* this step is the 2048th of a sequencer step whose index is in `steps`
SequencerAt(steps) ==
    /\ call.n % 2048 = 0
    /\ ((call.n \div 2048) + 7) % 8 \in steps

\* C35: after n APU steps the sequencer's step index is (n div 2048) mod 8,
\* within 0..7; a step clocks the length counter exactly when it completes
\* sequencer step 0, 2, 4 or 6, the sweep exactly when it completes step 2
\* or 6, and the envelope exactly when it completes step 7
C35_FrameSequencer ==
    ~state.mmu.fault =>
        /\ state.apu.sequencer_step \in 0..7
        /\ state.apu.sequencer_step = (call.n \div 2048) % 8
        /\ state.apu.sequencer_cycle = call.n % 2048
        /\ ApuObserved =>
              /\ LengthClocked <=> SequencerAt({0, 2, 4, 6})
              /\ SweepClocked <=> SequencerAt({2, 6})
              /\ EnvelopeClocked <=> SequencerAt({7})

\* the step that completes sequencer step 7 and wraps the index to 0
C35_Witness ==
    /\ ApuObserved
    /\ call.n = 16384
    /\ state.apu.sequencer_step = 0
    /\ EnvelopeClocked /\ ~LengthClocked /\ ~SweepClocked

\* C40: the sweep clock of channel 1 never takes the sweep timer below
\* zero - no panic, and no wrap beyond the 4-bit sweep time - and the
\* channel's frequency stays within 0..0x7FF
C40_Original ==
    /\ ~state.mmu.fault
    /\ state.apu.chan1.sweep_timer <= 15
    /\ state.apu.chan1.frequency \in 0..2047

(***************************************************************************)
(* SpecSprites: the PPU clocked as in SpecGpu, over a frame, with sprites  *)
(* in the OAM and both sprite heights.                                     *)
(***************************************************************************)
\* <<y, x, tile_idx, flags>> of OAM entry i.  "crowded": entries 0..11 lie on
\* lines 0..7 with x running down from 48 to 8 in pairs of equal x, entry 39
\* lies on the same lines at x = 0, entries 20..22 lie on lines 4..11 at
\* x = 8.  "sparse": three entries on different lines, two of them at equal x
SprEntry(oam, i) ==
    IF oam = "crowded"
    THEN CASE i \in 0..11 -> <<16, 8 * ((11 - i) \div 2) + 8, i + 1, 16 * (i % 16)>>
           [] i \in 20..22 -> <<20, 8, i + 1, 128>>
           [] i = 39 -> <<16, 0, 40, 0>>
           [] OTHER -> <<0, 0, 0, 0>>
    ELSE CASE i = 5 -> <<30, 100, 6, 32>>
           [] i = 6 -> <<24, 100, 7, 64>>
           [] i = 7 -> <<150, 3, 8, 0>>
           [] OTHER -> <<0, 0, 0, 0>>

\* the OAM array after MMU::write of every byte of those entries
SprOam(oam) ==
    LET byte(k) == SprEntry(oam, k \div 4)[(k % 4) + 1]
    IN  [k \in {o \in 0..(OAM_SIZE - 1) : byte(o) # 0} |-> byte(k)]

\* LCDC after GPU::new, with 8x8 and with 8x16 sprites
SprLcdcs == {145, 149}

SprInit ==
    /\ build \in Builds
    /\ cpu = CPU_new
    /\ \E oam \in {"crowded", "sparse"}, lcdc \in SprLcdcs :
          state = safe_write([Machine(TRUE) EXCEPT !.mmu.oam = SprOam(oam)], LCDC, lcdc)
    /\ cycles = NoCycles
    /\ call = [NotCalled EXCEPT !.pre.cpu = cpu, !.pre.state = state] @@ [run |-> NoScan]

SprNext == GpuStep

SpecSprites == SprInit /\ [][SprNext]_vars

\* GPU::step() returned from its OAM_SEARCH arm
OamSearched == GpuStepped /\ GPU_MODE(call.pre.state.mmu) = OAM_SEARCH

\* the line searched, the sprite height and the OAM entries at that search
SearchedLine == call.pre.state.gpu.ly

SpriteHeight == IF MMU_read_bit(call.pre.state.mmu, LCDC, 2) THEN 16 ELSE 8

OamY(i) == Get(call.pre.state.mmu.oam, 4 * i)

OamX(i) == Get(call.pre.state.mmu.oam, 4 * i + 1)

\* the OAM entries whose vertical range contains the line
OnLine ==
    {i \in 0..39 : OamY(i) <= SearchedLine + 16
                     /\ SearchedLine + 16 < OamY(i) + SpriteHeight}

\* the entries on the line that come before entry i: smaller x, or equal x
\* and smaller OAM index
Ahead(i) == {j \in OnLine : OamX(j) < OamX(i) \/ (OamX(j) = OamX(i) /\ j < i)}

\* the sprite the selection holds in slot j (1..10)
Selected(j) == GetSprite(state.gpu.sprites, state.gpu.sprites_line[j])

\* C36: after the OAM search of a line the selection holds the first 10 (or
\* all, if fewer) of the OAM entries whose vertical range contains the
\* line, in ascending x and, among equal x, ascending OAM index; every
\* selected sprite contains the line; the slots left over hold 0xFF
C36_SpriteSelection ==
    OamSearched =>
        \A j \in 1..10 :
            IF j <= Cardinality(OnLine)
            THEN /\ state.gpu.sprites_line[j] # 255
                 /\ Selected(j) =
                        OamSprite(call.pre.state.mmu.oam,
                                  CHOOSE i \in OnLine : Cardinality(Ahead(i)) = j - 1)
                 /\ Selected(j).y <= SearchedLine + 16
                 /\ SearchedLine + 16 < Selected(j).y + SpriteHeight
            ELSE state.gpu.sprites_line[j] = 255

\* 16 entries contain line 4: the selection is full, begins with entry 39
\* (x = 0) followed by the four entries at x = 8 in the order 10, 11, 20, 21
C36_Witness ==
    /\ OamSearched
    /\ SearchedLine = 4
    /\ Cardinality(OnLine) = 16
    /\ Selected(1).tile_idx = 40
    /\ Selected(2).tile_idx = 11 /\ Selected(3).tile_idx = 12
    /\ Selected(4).tile_idx = 21 /\ Selected(5).tile_idx = 22
    /\ Selected(10).tile_idx = 8

\* fewer than 10 entries on the line: slots left over
C36_WitnessSparse ==
    /\ OamSearched
    /\ Cardinality(OnLine) = 2
    /\ SpriteHeight = 16
    /\ Selected(1).tile_idx = 6 /\ Selected(2).tile_idx = 7
    /\ state.gpu.sprites_line[3] = 255

(***************************************************************************)
(* SpecMmu: MMU::read and MMU::write called directly, with the bootstrap   *)
(* overlay disabled, on addresses of every region of the map.              *)
(***************************************************************************)
\* the first and last byte of ROM, VRAM, cartridge RAM, work RAM, the echo
\* region, OAM, the area between OAM and the I/O registers, the I/O
\* registers and high RAM, and 0xFFFF
MmuAddrs ==
    {0, 32767, 32768, 40959, 40960, 49151, 49152, 57343, 57344, 65023,
     65024, 65183, 65184, 65279, 65280, 65407, 65408, 65534, 65535}

MmuValues == {0, 85}

MmuInit ==
    /\ build \in Builds
    /\ cpu = CPU_new
    /\ state = Machine(TRUE)
    /\ cycles = NoCycles
    /\ call = [NotCalled EXCEPT !.pre.cpu = cpu, !.pre.state = state] @@ [addr |-> 0, n |-> 0]

MmuWrite ==
    /\ ~state.mmu.fault
    /\ call.n < MaxBusOps
    /\ \E addr \in MmuAddrs, value \in MmuValues :
          /\ state' = [state EXCEPT !.mmu = MMU_write(@, addr, value)]
          /\ call' = Called("write", value) @@ [addr |-> addr, n |-> call.n + 1]
    /\ UNCHANGED <<cpu, cycles, build>>

MmuRead ==
    /\ ~state.mmu.fault
    /\ call.n < MaxBusOps
    /\ \E addr \in MmuAddrs :
          /\ state' = IF MMU_read_faults(state.mmu, addr)
                      THEN [state EXCEPT !.mmu = MFault(@)]
                      ELSE state
          /\ call' = Called("read", IF MMU_read_faults(state.mmu, addr) THEN 0
                                    ELSE MMU_read(state.mmu, addr))
                       @@ [addr |-> addr, n |-> call.n + 1]
    /\ UNCHANGED <<cpu, cycles, build>>

MmuNext == MmuWrite \/ MmuRead

SpecMmu == MmuInit /\ [][MmuNext]_vars

\* C39: with the overlay disabled, MMU::read and MMU::write return without
\* a panic for every address: the area 0xFEA0-0xFEFF, the echo region
\* 0xE000-0xFDFF and 0xFFFF included
C39_Original ==
    /\ call.op \in {"read", "write"}
    /\ ~MMU_booting(call.pre.state.mmu, 0)
    => ~state.mmu.fault

====
